---- MODULE Spec2Model ----
(***************************************************************************)
(* Rusted PackFile Manager: the open PackFile (container), the secondary   *)
(* PackFile, the operational mode and the files on disk, driven by the     *)
(* handlers of build_ui (src/src/main.rs).  The operators of the container *)
(* library (module packfile) follow the container contract of the          *)
(* specification, sections 3, 4.6, 6 and 7.                                *)
(***************************************************************************)
EXTENDS Integers, Sequences, FiniteSets, TLC

VARIABLES pack_file_decoded, pack_file_decoded_extra, mode, game_selected,
          schema, disk, last,
          tables_definitions, schema_file,
          packed_file_type, packed_file_index, packed_file_data_decoded,
          packed_file_list_store,
          packed_file_data_encoded, table_name, initial_index, table_definition,
          fields_list_store, index_data, all_table_versions_list_store,
          esf_data, model, new_esf, codec_value, codec_data, codec_result,
          is_folder_tree_view_locked, folder_tree_view_extra_exit_button,
          menu_bar_my_mod

\* The state that the handlers of the menus and of the tree view leave as it
\* is: the schema file, the table shown and the decoder session.
view_vars == <<schema_file, packed_file_type, packed_file_index,
               packed_file_data_decoded, packed_file_list_store,
               packed_file_data_encoded, table_name, initial_index,
               table_definition, fields_list_store, index_data,
               all_table_versions_list_store>>

\* The ESF view and the values handed to the codec of the fields.
lib_vars == <<esf_data, model, new_esf, codec_value, codec_data, codec_result>>

\* The lock of the main tree view with the exit button of the display, and
\* the enabled state of the actions of the My Mod menu.
lock_vars == <<is_folder_tree_view_locked, folder_tree_view_extra_exit_button>>
window_vars == <<lock_vars, menu_bar_my_mod>>

vars == <<pack_file_decoded, pack_file_decoded_extra, mode, game_selected,
          schema, disk, last, tables_definitions, view_vars, lib_vars,
          window_vars>>

(***************************************************************************)
(* Bounds.                                                                 *)
(***************************************************************************)
\* The largest number of entries a container of the model holds.
MaxEntries == 3

\* The largest number of fields a decoder session of the model holds.
MaxFields == 3

\* The largest number of rows a Loc of the model gets by adding rows.
MaxRows == 2

(***************************************************************************)
(* Sequence helpers.                                                       *)
(***************************************************************************)
RECURSIVE Concat(_)
Concat(ss) == IF ss = <<>> THEN <<>> ELSE Head(ss) \o Concat(Tail(ss))

RECURSIVE SumSizes(_, _)
SumSizes(index, n) == IF n = 0 THEN 0 ELSE index[n].size + SumSizes(index, n - 1)

Range(s) == {s[i] : i \in DOMAIN s}

\* The slice `starts_with` of Rust: p is a prefix of the segment sequence path.
StartsWith(path, p) ==
    /\ Len(p) <= Len(path)
    /\ \A i \in 1..Len(p) : path[i] = p[i]

RECURSIVE Retain(_, _)
\* Vec::retain: the elements whose index is kept, in their order.
Retain(s, keep) ==
    IF s = <<>> THEN <<>>
    ELSE LET rest == Retain(Tail(s), [i \in 1..(Len(s) - 1) |-> keep[i + 1]])
         IN  IF keep[1] THEN <<Head(s)>> \o rest ELSE rest

Paths(pf) == [i \in DOMAIN pf.packed_files |-> pf.packed_files[i].packed_file_path]

NoDuplicatePaths(files) ==
    \A i, j \in DOMAIN files :
        files[i].packed_file_path = files[j].packed_file_path => i = j

(***************************************************************************)
(* Errors (spec section 7) and the record of the last request.             *)
(***************************************************************************)
ErrNone == ""

\* op: the handler that ran; err: the error it reported ("" for none);
\* file_errors: the files of the request that were not added.
Last(op, err, file_errors) ==
    [op |-> op, err |-> err, file_errors |-> file_errors]

(***************************************************************************)
(* The PackFile in memory.                                                 *)
(***************************************************************************)
NoPath == <<"", "">>

PackedFile(path, data) == [packed_file_path |-> path, packed_file_data |-> data]

\* PackFile::new(): the dummy PackFile held before anything is opened.
PackFileNew ==
    [file_name |-> "", file_path |-> NoPath, pack_file_id |-> "PFH5",
     pack_file_type |-> 3, packed_file_count |-> 0, packed_files |-> <<>>,
     is_modified |-> FALSE]

\* packfile::new_packfile(file_name, packfile_id): an empty Mod PackFile.
new_packfile(file_name, packfile_id) ==
    [file_name |-> file_name, file_path |-> NoPath, pack_file_id |-> packfile_id,
     pack_file_type |-> 3, packed_file_count |-> 0, packed_files |-> <<>>,
     is_modified |-> FALSE]

\* set_modified with the flag raised whatever it is given.
SetModifiedTrue(is_modified, pf) == [pf EXCEPT !.is_modified = TRUE]

\* fn set_modified: the flag of the PackFile (the window title is not modelled).
set_modified(is_modified, pf) ==
    IF is_modified THEN [pf EXCEPT !.is_modified = TRUE]
    ELSE [pf EXCEPT !.is_modified = FALSE]

(***************************************************************************)
(* Container library (module packfile), after spec sections 3, 4.6, 5, 7.  *)
(* Every operation returns the error ("" when it succeeded) and the        *)
(* PackFile it leaves behind.                                              *)
(***************************************************************************)
Result(err, pf) == [err |-> err, pack_file |-> pf]

packedfile_exists(pf, tree_path) ==
    \E i \in DOMAIN pf.packed_files : pf.packed_files[i].packed_file_path = tree_path

folder_exists(pf, tree_path) ==
    \E i \in DOMAIN pf.packed_files :
        /\ StartsWith(pf.packed_files[i].packed_file_path, tree_path)
        /\ Len(pf.packed_files[i].packed_file_path) > Len(tree_path)

\* What a tree path denotes in a PackFile: the PackFile itself (the empty
\* path), an entry, a folder, or nothing.
get_type_of_selected_tree_path(tree_path, pf) ==
    IF tree_path = <<>> THEN "PackFile"
    ELSE IF packedfile_exists(pf, tree_path) THEN "File"
    ELSE IF folder_exists(pf, tree_path) THEN "Folder"
    ELSE "None"

\* The nodes of the tree view of a PackFile: what a selection can be.
TreeNodes(pf) ==
    {<<>>} \cup
    UNION {{SubSeq(pf.packed_files[i].packed_file_path, 1, n) :
                n \in 1..Len(pf.packed_files[i].packed_file_path)} :
           i \in DOMAIN pf.packed_files}

\* Appends entries to the PackFile and keeps the header's count.
add_packedfiles(pf, files) ==
    [pf EXCEPT !.packed_files = @ \o files,
               !.packed_file_count = @ + Len(files)]

\* Add (4.6): rejected when the destination path already exists.
add_file_to_packfile(pf, data, tree_path) ==
    IF packedfile_exists(pf, tree_path) THEN Result("PathCollision", pf)
    ELSE Result(ErrNone, add_packedfiles(pf, <<PackedFile(tree_path, data)>>))

\* The entries a delete of tree_path removes: the entry itself, the entries
\* below a folder, every entry for the PackFile.
DeleteTargets(pf, tree_path) ==
    LET type == get_type_of_selected_tree_path(tree_path, pf)
    IN  {i \in DOMAIN pf.packed_files :
            IF type = "File" THEN pf.packed_files[i].packed_file_path = tree_path
            ELSE IF type \in {"Folder", "PackFile"}
                 THEN StartsWith(pf.packed_files[i].packed_file_path, tree_path)
            ELSE FALSE}

\* Delete (4.6): by exact path or by path prefix.
delete_from_packfile(pf, tree_path) ==
    LET gone == DeleteTargets(pf, tree_path)
    IN  IF get_type_of_selected_tree_path(tree_path, pf) = "None"
        THEN Result("NotFound", pf)
        ELSE Result(ErrNone,
                    [pf EXCEPT !.packed_files =
                                   Retain(@, [i \in DOMAIN @ |-> i \notin gone]),
                               !.packed_file_count = @ - Cardinality(gone)])

\* The path an entry below tree_path gets when tree_path's last segment
\* becomes new_name.
RenamedPath(path, tree_path, new_name) ==
    [path EXCEPT ![Len(tree_path)] = new_name]

\* Rename (4.6): delete+add preserving payload, rejected on a collision.
rename_packed_file(pf, tree_path, new_name) ==
    LET type == get_type_of_selected_tree_path(tree_path, pf)
        hit == DeleteTargets(pf, tree_path)
        collides == \E i \in hit :
            packedfile_exists(pf, RenamedPath(pf.packed_files[i].packed_file_path,
                                              tree_path, new_name))
    IN  IF type \notin {"File", "Folder"} THEN Result("NotFound", pf)
        ELSE IF collides THEN Result("PathCollision", pf)
        ELSE Result(ErrNone,
                    [pf EXCEPT !.packed_files =
                        [i \in DOMAIN @ |->
                            IF i \in hit
                            THEN [@[i] EXCEPT !.packed_file_path =
                                     RenamedPath(@, tree_path, new_name)]
                            ELSE @[i]]])

\* The entries of source below (or at) tree_path_source, moved below
\* tree_path_destination: a file keeps its name, a folder its name and what
\* is below it, the PackFile everything.
CopiedFiles(source, tree_path_source, tree_path_destination) ==
    LET hit == DeleteTargets(source, tree_path_source)
        keep == IF tree_path_source = <<>> THEN 0 ELSE Len(tree_path_source) - 1
        moved == [i \in DOMAIN source.packed_files |->
                    LET f == source.packed_files[i]
                    IN  PackedFile(tree_path_destination \o
                                   SubSeq(f.packed_file_path, keep + 1,
                                          Len(f.packed_file_path)),
                                   f.packed_file_data)]
    IN  Retain(moved, [i \in DOMAIN moved |-> i \in hit])

\* Copy from a second PackFile: an add of every copied entry, all or nothing.
add_packedfile_to_packfile(source, pf, tree_path_source, tree_path_destination) ==
    LET files == CopiedFiles(source, tree_path_source, tree_path_destination)
    IN  IF files = <<>> THEN Result("NotFound", pf)
        ELSE IF \E i \in DOMAIN files : packedfile_exists(pf, files[i].packed_file_path)
        THEN Result("PathCollision", pf)
        ELSE Result(ErrNone, add_packedfiles(pf, files))

(***************************************************************************)
(* Files on disk and the container file layout (spec section 6): header    *)
(* (dialect tag, archive type, entry count), entry index (path and payload *)
(* length per entry), concatenated payload blob.                           *)
(***************************************************************************)
NoFile ==
    [present |-> FALSE, pack_file_id |-> "", pack_file_type |-> 0,
     packed_file_count |-> 0, index |-> <<>>, blob |-> <<>>]

IndexEntry(path, size) == [path |-> path, size |-> size]

\* Save (4.6): header + index + payloads in entry order.
Encode(pf) ==
    [present |-> TRUE, pack_file_id |-> pf.pack_file_id,
     pack_file_type |-> pf.pack_file_type,
     packed_file_count |-> pf.packed_file_count,
     index |-> [i \in DOMAIN pf.packed_files |->
                   IndexEntry(pf.packed_files[i].packed_file_path,
                              Len(pf.packed_files[i].packed_file_data))],
     blob |-> Concat([i \in DOMAIN pf.packed_files |->
                         pf.packed_files[i].packed_file_data])]

\* The entries the header's count announces, each payload cut out of the blob
\* at the offset the preceding lengths give.
DecodeEntries(file) ==
    [i \in 1..file.packed_file_count |->
        PackedFile(file.index[i].path,
                   SubSeq(file.blob, SumSizes(file.index, i - 1) + 1,
                          SumSizes(file.index, i)))]

\* Open (4.6): the tag is one of the two dialects, the index is read, paths
\* are unique.
open_packfile_lib(files, path) ==
    LET file == files[path]
        opened == [file_name |-> path[2], file_path |-> path,
                   pack_file_id |-> file.pack_file_id,
                   pack_file_type |-> file.pack_file_type,
                   packed_file_count |-> file.packed_file_count,
                   packed_files |-> DecodeEntries(file),
                   is_modified |-> FALSE]
    IN  IF ~file.present THEN Result("IOError", PackFileNew)
        ELSE IF file.pack_file_id \notin {"PFH4", "PFH5"}
        THEN Result("CorruptContainer", PackFileNew)
        ELSE IF \/ file.packed_file_count > Len(file.index)
                \/ SumSizes(file.index, file.packed_file_count) > Len(file.blob)
        THEN Result("UnexpectedEndOfData", PackFileNew)
        ELSE IF ~NoDuplicatePaths(opened.packed_files)
        THEN Result("CorruptContainer", PackFileNew)
        ELSE Result(ErrNone, opened)

\* Save (4.6) to new_path, or to the PackFile's own path when new_path is
\* NoPath.  io_ok: whether the file system lets the file be written.  A failed
\* save changes neither the PackFile nor the disk (section 7).
save_packfile(pf, new_path, io_ok, files) ==
    LET target == IF new_path = NoPath THEN pf.file_path ELSE new_path
        saved == [pf EXCEPT !.file_name = target[2], !.file_path = target]
    IN  IF ~io_ok \/ target \notin DOMAIN files
        THEN [err |-> "IOError", pack_file |-> pf, disk |-> files]
        ELSE [err |-> ErrNone, pack_file |-> saved,
              disk |-> [files EXCEPT ![target] = Encode(saved)]]

\* Path::is_file on the PackFile's path.
is_file(files, path) == path \in DOMAIN files /\ files[path].present

(***************************************************************************)
(* The world outside the program: settings, games, the files it starts     *)
(* with.                                                                   *)
(***************************************************************************)
Games == {"warhammer_2", "warhammer"}

\* The games the combo of the New MyMod window offers: the two above and one
\* the handlers have no branch for.
ComboGames == Games \cup {"attila"}

\* GameInfo: the PackFile id of each supported game.
GameId(game) == IF game = "warhammer_2" THEN "PFH5" ELSE "PFH4"

\* settings.paths.game_paths: the game path configured for warhammer_2 only.
game_data_path(game) == IF game = "warhammer_2" THEN "warhammer_2/data" ELSE ""

\* The folder of the MyMods of a game below settings.paths.my_mods_base_path.
MyModFolder(game_folder_name) == game_folder_name

GoodPack == <<"files", "good.pack">>
BadPack == <<"files", "bad.pack">>
DupPack == <<"files", "dup.pack">>
NewPack == <<"files", "new.pack">>
DataPack == <<"warhammer_2/data", "data.pack">>
ModName == "mod.pack"

\* The names a New MyMod can be given, with their extension.
ModNames == {ModName, "other.pack"}

MyModPath(game_folder_name) == <<MyModFolder(game_folder_name), ModName>>

DependencyPackPath(game) ==
    IF game = "warhammer_2" THEN <<"dependency_packs", "wh2.pack">>
    ELSE <<"dependency_packs", "wh.pack">>

\* The PackFiles the file choosers show.
ChooserPaths == {GoodPack, BadPack, DupPack, NewPack}

DiskPaths ==
    {GoodPack, BadPack, DupPack, NewPack, DataPack}
    \cup {<<MyModFolder(g), name>> : g \in ComboGames, name \in ModNames}
    \cup {DependencyPackPath(g) : g \in Games}

GoodFiles == <<PackedFile(<<"db", "x">>, <<1>>), PackedFile(<<"x">>, <<2, 3>>)>>

DataFiles ==
    <<PackedFile(<<"db", "x">>, <<1>>), PackedFile(<<"text", "y">>, <<2, 3>>),
      PackedFile(<<"db", "z">>, <<1>>)>>

ModFiles == <<PackedFile(<<"db", "z">>, <<2, 3>>)>>

DupFiles == <<PackedFile(<<"y">>, <<1>>), PackedFile(<<"y">>, <<2>>)>>

InitialDisk ==
    [p \in DiskPaths |->
        IF p = GoodPack
        THEN Encode([add_packedfiles(new_packfile("good.pack", "PFH5"), GoodFiles)
                        EXCEPT !.pack_file_type = 4])
        ELSE IF p = BadPack
        THEN Encode(add_packedfiles(new_packfile("bad.pack", "PFH3"), GoodFiles))
        ELSE IF p = DupPack
        THEN Encode(add_packedfiles(new_packfile("dup.pack", "PFH4"), DupFiles))
        ELSE IF p = DataPack
        THEN Encode(add_packedfiles(new_packfile("data.pack", "PFH5"), DataFiles))
        ELSE IF p = MyModPath("warhammer")
        THEN Encode(add_packedfiles(new_packfile(ModName, "PFH4"), ModFiles))
        ELSE IF p = MyModPath("warhammer_2")
        THEN Encode(add_packedfiles(new_packfile(ModName, "PFH3"), ModFiles))
        ELSE NoFile]

\* Schema::load(..).ok(): a schema file exists for PFH5 only.
SchemaLoad(pack_file_id) == IF pack_file_id = "PFH5" THEN "schema_wh2" ELSE "None"

(***************************************************************************)
(* Operational mode (enum Mode) and the state the handlers share.          *)
(***************************************************************************)
Normal == [kind |-> "Normal", game_folder_name |-> "", mod_name |-> ""]

MyMod(game_folder_name, mod_name) ==
    [kind |-> "MyMod", game_folder_name |-> game_folder_name, mod_name |-> mod_name]

\* The entry paths of the containers the model follows.
KnownPaths ==
    {<<"x">>, <<"db", "x">>, <<"db", "z">>, <<"z", "x">>}

\* Enabled state of the actions Delete, Install and Uninstall of My Mod.
MyModActions(enabled) ==
    [delete |-> enabled, install |-> enabled, uninstall |-> enabled]

\* What a handler leaves behind: the error it reported and the shared state;
\* the actions of My Mod stay as they are unless the handler sets them.
Outcome(err, pf, m, game, sch, files) ==
    [err |-> err, pack_file |-> pf, mode |-> m, game_selected |-> game,
     schema |-> sch, disk |-> files, menu_bar_my_mod |-> menu_bar_my_mod]

\* menu_bar_my_mod_delete, _install and _uninstall .set_enabled(enabled).
set_enabled(o, enabled) == [o EXCEPT !.menu_bar_my_mod = MyModActions(enabled)]

\* ui::are_you_sure: asks only when the PackFile is modified (or always, for
\* a deletion); answer is what the user replies.
are_you_sure(is_modified, is_delete_my_mod, answer) ==
    IF is_modified \/ is_delete_my_mod THEN answer ELSE TRUE

\* A PackFile has been created or opened: the tree view has a root and the
\* PackFile actions are enabled.
PackFileOpen == pack_file_decoded.file_name # ""

\* The mode set to Normal with the actions of My Mod left as they are.
DisableModeOnly(o) == [o EXCEPT !.mode = Normal]

\* fn disable_my_mod_mode: the mode is Normal and the actions are disabled.
disable_my_mod_mode(o) == set_enabled([o EXCEPT !.mode = Normal], FALSE)

(***************************************************************************)
(* Menu "File".                                                            *)
(***************************************************************************)
\* menu_bar_new_packfile handler.
NewPackFileOutcome ==
    LET pack_file_id == GameId(game_selected)
        pf == set_modified(FALSE, new_packfile("unknown.pack", pack_file_id))
    IN  disable_my_mod_mode(Outcome(ErrNone, pf, mode, game_selected,
                                    SchemaLoad(pf.pack_file_id), disk))

\* fn open_packfile with a mutation ahead of the library's verdict.
OpenPackfileEager(pack_file_path, is_my_mod, game_folder_name) ==
    LET r == open_packfile_lib(disk, pack_file_path)
    IN  Outcome(r.err, set_modified(FALSE, r.pack_file), Normal, game_selected,
                schema, disk)

\* fn open_packfile.
OpenPackfileOutcome(pack_file_path, is_my_mod, game_folder_name) ==
    LET r == open_packfile_lib(disk, pack_file_path)
        pf == set_modified(FALSE, r.pack_file)
    IN  IF r.err # ErrNone
        THEN Outcome(r.err, pack_file_decoded, mode, game_selected, schema, disk)
        ELSE set_enabled(
                 Outcome(ErrNone, pf,
                         IF is_my_mod THEN MyMod(game_folder_name, pf.file_name)
                         ELSE Normal,
                         IF is_my_mod THEN game_folder_name
                         ELSE IF pf.pack_file_id = "PFH5" THEN "warhammer_2"
                         ELSE "warhammer",
                         SchemaLoad(pf.pack_file_id), disk),
                 is_my_mod)

\* menu_bar_save_packfile_as handler, the file chooser accepted with target.
SavePackFileAsOutcome(target, io_ok) ==
    LET r == save_packfile(pack_file_decoded, target, io_ok, disk)
    IN  IF r.err # ErrNone
        THEN Outcome(r.err, r.pack_file, mode, game_selected, schema, r.disk)
        ELSE disable_my_mod_mode(
                 Outcome(ErrNone, set_modified(FALSE, r.pack_file), mode,
                         game_selected, schema, r.disk))

\* menu_bar_save_packfile handler with the result of the save ignored.
SavePackFileOutcomeIgnoringError(io_ok) ==
    LET r == save_packfile(pack_file_decoded, NoPath, io_ok, disk)
    IN  Outcome(ErrNone, set_modified(FALSE, r.pack_file), mode, game_selected,
                schema, r.disk)

\* menu_bar_save_packfile handler, the PackFile being a file on disk.
SavePackFileOutcome(io_ok) ==
    LET r == save_packfile(pack_file_decoded, NoPath, io_ok, disk)
    IN  IF r.err # ErrNone
        THEN Outcome(r.err, r.pack_file, mode, game_selected, schema, r.disk)
        ELSE Outcome(ErrNone, set_modified(FALSE, r.pack_file), mode,
                     game_selected, schema, r.disk)

\* menu_bar_change_packfile_type handler.
ChangePackFileTypeOutcome(new_type) ==
    IF pack_file_decoded.pack_file_type # new_type
    THEN set_modified(TRUE, [pack_file_decoded EXCEPT !.pack_file_type = new_type])
    ELSE pack_file_decoded

(***************************************************************************)
(* Menu "My Mod".                                                          *)
(***************************************************************************)
\* my_mod_new_accept handler: the name of the mod with its extension and the
\* game chosen in the combo.
MyModNewOutcome(full_mod_name, selected_game, io_ok) ==
    LET game == IF selected_game = "warhammer_2" THEN "warhammer_2" ELSE "warhammer"
        packfile_id == IF selected_game = "warhammer_2" THEN "PFH5" ELSE "PFH4"
        pf == set_modified(FALSE, new_packfile(full_mod_name, packfile_id))
        selected_game_folder == selected_game
        r == save_packfile(pf, <<MyModFolder(selected_game_folder), full_mod_name>>,
                           io_ok, disk)
    IN  IF r.err # ErrNone
        THEN Outcome(r.err, r.pack_file, mode, game, schema, r.disk)
        ELSE set_enabled(
                 Outcome(ErrNone, r.pack_file,
                         MyMod(selected_game_folder, full_mod_name), game, schema,
                         r.disk),
                 TRUE)

\* menu_bar_my_mod_delete handler, after the user confirmed: io_ok is the
\* result of remove_file on the PackFile of the mod, assets_ok the result of
\* remove_dir_all on its assets folder (true also when there is no folder).
\* The handler returns on the first error; the mode, the actions and the open
\* PackFile are reset after both removals.
MyModDeleteOutcome(io_ok, assets_ok) ==
    LET my_mod_path == <<MyModFolder(mode.game_folder_name), mode.mod_name>>
        same == Outcome("IOError", pack_file_decoded, mode, game_selected, schema, disk)
        deleted == [disk EXCEPT ![my_mod_path] = NoFile]
    IN  IF mode.kind = "Normal" THEN [same EXCEPT !.err = "MyModNotSelected"]
        ELSE IF ~is_file(disk, my_mod_path) THEN [same EXCEPT !.err = "NotFound"]
        ELSE IF ~io_ok THEN same
        ELSE IF ~assets_ok THEN [same EXCEPT !.disk = deleted]
        ELSE set_enabled(
                 Outcome(ErrNone, PackFileNew, Normal, game_selected, schema, deleted),
                 FALSE)

(***************************************************************************)
(* Contextual menu of the tree view.                                       *)
(***************************************************************************)
\* The files a file chooser can hand over: name, content, and the path below
\* the assets folder of a MyMod (empty when the file lies elsewhere).
FileX == [name |-> "x", data |-> <<1>>, assets |-> <<>>]
FileZ == [name |-> "z", data |-> <<2, 3>>, assets |-> <<"db", "z">>]

FileChoices == {<<FileX>>, <<FileX, FileZ>>}

\* The folder a file chooser can hand over: its files, each with its path
\* from the folder's parent, and the folder's path below the assets folder
\* of a MyMod.
FolderDb ==
    [files |-> <<[path |-> <<"db", "x">>, data |-> <<1>>],
                 [path |-> <<"db", "z">>, data |-> <<2, 3>>]>>,
     assets |-> <<"db">>]

\* The folder a selection stands for: the folder itself, the PackFile, or
\* the folder an entry lies in.
SelectedFolder(tree_path, pf) ==
    IF get_type_of_selected_tree_path(tree_path, pf) = "File"
    THEN SubSeq(tree_path, 1, Len(tree_path) - 1)
    ELSE tree_path

\* ui::get_tree_path_from_pathbuf: the path a file gets below the folder
\* the selection stands for.
get_tree_path_from_pathbuf(relative_path, selected_folder) ==
    selected_folder \o relative_path

\* The tree path of a file picked in add-file: below the assets folder of the
\* MyMod its path from there, otherwise below the selection.
AddFileTreePath(file, selected_folder, m) ==
    IF m.kind = "MyMod" /\ file.assets # <<>> THEN file.assets
    ELSE get_tree_path_from_pathbuf(<<file.name>>, selected_folder)

\* One round of the loop of folder_tree_view_add_file, every result taken
\* for a success.
AddFileStepUnchecked(pf, file, selected_folder, m) ==
    LET r == add_file_to_packfile(pf, file.data,
                                  AddFileTreePath(file, selected_folder, m))
    IN  Result(ErrNone, set_modified(TRUE, r.pack_file))

\* One round of the loop of folder_tree_view_add_file.
AddFileStep(pf, file, selected_folder, m) ==
    LET r == add_file_to_packfile(pf, file.data,
                                  AddFileTreePath(file, selected_folder, m))
    IN  IF r.err = ErrNone THEN Result(ErrNone, set_modified(TRUE, r.pack_file))
        ELSE Result(r.err, r.pack_file)

RECURSIVE AddFileLoop(_, _, _, _)
\* folder_tree_view_add_file handler: the loop over the chosen files; err is
\* the error of the last file that failed, file_errors their number.
AddFileLoop(pf, files, selected_folder, m) ==
    IF files = <<>> THEN [err |-> ErrNone, pack_file |-> pf, file_errors |-> 0]
    ELSE LET r == AddFileStep(pf, Head(files), selected_folder, m)
             rest == AddFileLoop(r.pack_file, Tail(files), selected_folder, m)
         IN  [err |-> IF rest.err # ErrNone THEN rest.err ELSE r.err,
              pack_file |-> rest.pack_file,
              file_errors |-> rest.file_errors + (IF r.err = ErrNone THEN 0 ELSE 1)]

\* The tree path of a file of a folder picked in add-folder.
AddFolderTreePath(folder, file, in_assets, selected_folder, m) ==
    IF m.kind = "MyMod" /\ in_assets
    THEN SubSeq(folder.assets, 1, Len(folder.assets) - 1) \o file.path
    ELSE get_tree_path_from_pathbuf(file.path, selected_folder)

RECURSIVE AddFolderLoop(_, _, _, _, _, _)
\* The loop of folder_tree_view_add_folder over the files of the folder.
AddFolderLoop(pf, folder, files, in_assets, selected_folder, m) ==
    IF files = <<>> THEN [pack_file |-> pf, file_errors |-> 0]
    ELSE LET r == add_file_to_packfile(
                      pf, Head(files).data,
                      AddFolderTreePath(folder, Head(files), in_assets,
                                        selected_folder, m))
             rest == AddFolderLoop(r.pack_file, folder, Tail(files), in_assets,
                                   selected_folder, m)
         IN  [pack_file |-> rest.pack_file,
              file_errors |-> rest.file_errors + (IF r.err = ErrNone THEN 0 ELSE 1)]

\* folder_tree_view_add_folder handler for one chosen folder.
AddFolderOutcome(folder, in_assets, selected_folder) ==
    LET r == AddFolderLoop(pack_file_decoded, folder, folder.files, in_assets,
                           selected_folder, mode)
    IN  [err |-> IF r.file_errors > 0 THEN "PathCollision" ELSE ErrNone,
         pack_file |-> set_modified(TRUE, r.pack_file),
         file_errors |-> r.file_errors]

\* The copy handler with its two PackFiles exchanged: the entries go from the
\* open PackFile into the secondary one.
CopyOutcomeSwapped(tree_path_source, tree_path_destination) ==
    LET r == add_packedfile_to_packfile(pack_file_decoded, pack_file_decoded_extra,
                                        tree_path_source, tree_path_destination)
    IN  IF r.err = ErrNone THEN Result(ErrNone, set_modified(TRUE, r.pack_file))
        ELSE r

\* folder_tree_view_extra_copy_button handler.
CopyOutcome(tree_path_source, tree_path_destination) ==
    LET r == add_packedfile_to_packfile(pack_file_decoded_extra, pack_file_decoded,
                                        tree_path_source, tree_path_destination)
    IN  IF r.err = ErrNone THEN Result(ErrNone, set_modified(TRUE, r.pack_file))
        ELSE r

\* folder_tree_view_delete_packedfile handler handing over the folder the
\* selection lies in, as the add handlers do.
DeleteOutcomeFolder(tree_path) ==
    LET r == delete_from_packfile(pack_file_decoded,
                                  SelectedFolder(tree_path, pack_file_decoded))
    IN  IF r.err = ErrNone THEN Result(ErrNone, set_modified(TRUE, r.pack_file))
        ELSE r

\* folder_tree_view_delete_packedfile handler.
DeleteOutcome(tree_path) ==
    LET r == delete_from_packfile(pack_file_decoded, tree_path)
    IN  IF r.err = ErrNone THEN Result(ErrNone, set_modified(TRUE, r.pack_file))
        ELSE r

\* The names typed into the rename popover.
NewNames == {"x", "z"}

\* rename_popover key_release handler with name_changed set whatever the
\* result.
RenameOutcomeUnchecked(tree_path, new_name) ==
    LET r == rename_packed_file(pack_file_decoded, tree_path, new_name)
    IN  Result(r.err, set_modified(TRUE, r.pack_file))

\* rename_popover key_release handler renaming the folder the selection lies
\* in.
RenameOutcomeFolder(tree_path, new_name) ==
    LET r == rename_packed_file(pack_file_decoded,
                                SelectedFolder(tree_path, pack_file_decoded), new_name)
    IN  IF r.err = ErrNone THEN Result(ErrNone, set_modified(TRUE, r.pack_file))
        ELSE r

\* rename_popover key_release handler, on Enter.
RenameOutcome(tree_path, new_name) ==
    LET r == rename_packed_file(pack_file_decoded, tree_path, new_name)
    IN  IF r.err = ErrNone THEN Result(ErrNone, set_modified(TRUE, r.pack_file))
        ELSE r

(***************************************************************************)
(* Menu "Special Stuff".                                                   *)
(***************************************************************************)
\* packfile::patch_siege_ai: drops the entries of the siege map that the
\* patch removes (`gone`, chosen by the content of the map); nothing to patch
\* is an error.
patch_siege_ai_lib(pf, gone) ==
    IF gone = {} THEN Result("NothingToPatch", pf)
    ELSE Result(ErrNone,
                [pf EXCEPT !.packed_files =
                               Retain(@, [i \in DOMAIN @ |-> i \notin gone]),
                           !.packed_file_count = @ - Cardinality(gone)])

\* fn patch_siege_ai.
PatchSiegeAiOutcome(gone, io_ok) ==
    LET patched == patch_siege_ai_lib(pack_file_decoded, gone)
        r == save_packfile(patched.pack_file, NoPath, io_ok, disk)
    IN  IF patched.err # ErrNone
        THEN [err |-> patched.err, pack_file |-> patched.pack_file, disk |-> disk]
        ELSE r

\* The filtering of generate_dependency_pack without the header's count.
DependencyPackStaleCount(data_packfile) ==
    [data_packfile EXCEPT !.packed_files =
        Retain(@, [i \in DOMAIN @ |-> StartsWith(@[i].packed_file_path, <<"db">>)])]

\* The filtering of generate_dependency_pack: retain the entries below db,
\* then set the header's count.
DependencyPack(data_packfile) ==
    LET kept == Retain(data_packfile.packed_files,
                       [i \in DOMAIN data_packfile.packed_files |->
                           StartsWith(data_packfile.packed_files[i].packed_file_path,
                                      <<"db">>)])
    IN  [data_packfile EXCEPT !.packed_files = kept,
                              !.packed_file_count = Len(kept)]

\* fn generate_dependency_pack.
GenerateDependencyPackOutcome(io_ok) ==
    LET path == game_data_path(game_selected)
        data_pack_path == <<path, "data.pack">>
        opened == IF data_pack_path \in DOMAIN disk
                  THEN open_packfile_lib(disk, data_pack_path)
                  ELSE Result("IOError", PackFileNew)
        r == save_packfile(DependencyPack(opened.pack_file),
                           DependencyPackPath(game_selected), io_ok, disk)
    IN  IF path = "" THEN [err |-> "DataPathNotFound", disk |-> disk]
        ELSE IF opened.err # ErrNone THEN [err |-> opened.err, disk |-> disk]
        ELSE [err |-> r.err, disk |-> r.disk]

(***************************************************************************)
(* Templates (rpfm_lib/src/template/mod.rs).                               *)
(***************************************************************************)
RECURSIVE add_packed_files(_, _, _)
\* PackFile::add_packed_files: with overwrite an entry replaces the one that
\* has its path, without it a collision is an error (Add, 4.6).
add_packed_files(pf, files, overwrite) ==
    IF files = <<>> THEN Result(ErrNone, pf)
    ELSE LET f == Head(files)
             hit == {i \in DOMAIN pf.packed_files :
                        pf.packed_files[i].packed_file_path = f.packed_file_path}
             next == IF hit = {} THEN add_packedfiles(pf, <<f>>)
                     ELSE [pf EXCEPT !.packed_files =
                              [i \in DOMAIN @ |-> IF i \in hit THEN f ELSE @[i]]]
             rest == add_packed_files(next, Tail(files), overwrite)
         IN  IF hit # {} /\ ~overwrite THEN Result("PathCollision", pf)
             ELSE IF rest.err # ErrNone THEN Result(rest.err, pf)
             ELSE rest

\* What the sections of a template come to for the open PackFile: the tables
\* and assets it adds, and whether one of its paths has an empty item.
TemplateTables ==
    [packed_files |-> <<PackedFile(<<"db", "x">>, <<1>>), PackedFile(<<"db", "z">>, <<2, 3>>)>>,
     invalid |-> FALSE]
TemplateTwice ==
    [packed_files |-> <<PackedFile(<<"x">>, <<1>>), PackedFile(<<"x">>, <<2, 3>>)>>,
     invalid |-> FALSE]
TemplateInvalid ==
    [packed_files |-> <<PackedFile(<<"y", "">>, <<1>>)>>, invalid |-> TRUE]

Templates == {TemplateTables, TemplateTwice, TemplateInvalid}

\* Template::apply_template with the new entries pushed onto the entry list.
ApplyTemplatePush(template, pf, sch) ==
    IF pf.file_name = "" THEN Result("PackFileIsNotAFile", pf)
    ELSE IF template.invalid THEN Result("InvalidPathsInTemplate", pf)
    ELSE IF sch = "None" THEN Result("SchemaNotFound", pf)
    ELSE Result(ErrNone, add_packedfiles(pf, template.packed_files))

\* Template::apply_template.
apply_template(template, pf, sch) ==
    IF pf.file_name = "" THEN Result("PackFileIsNotAFile", pf)
    ELSE IF template.invalid THEN Result("InvalidPathsInTemplate", pf)
    ELSE IF sch = "None" THEN Result("SchemaNotFound", pf)
    ELSE add_packed_files(pf, template.packed_files, TRUE)

(***************************************************************************)
(* Primitive codec (module common::coding_helpers, spec section 4.1).     *)
(* A buffer is a sequence of bytes; an index counts bytes from zero.       *)
(***************************************************************************)
FieldTypes ==
    {"Bool", "Float", "Integer", "LongInteger", "StringU8", "StringU16",
     "OptionalStringU8", "OptionalStringU16"}

HasBytes(data, index, count) == index + count <= Len(data)

BytesAt(data, index, count) == [i \in 1..count |-> data[index + i]]

RECURSIVE LittleEndian(_)
LittleEndian(bytes) ==
    IF bytes = <<>> THEN 0 ELSE Head(bytes) + 256 * LittleEndian(Tail(bytes))

Decoded(err, value, index) == [err |-> err, value |-> value, index |-> index]

decode_bool(data, index) ==
    IF ~HasBytes(data, index, 1) THEN Decoded("UnexpectedEndOfData", <<>>, index)
    ELSE IF data[index + 1] \notin {0, 1} THEN Decoded("MalformedField", <<>>, index)
    ELSE Decoded(ErrNone, <<data[index + 1]>>, index + 1)

\* A number of several bytes as its digits of two bytes each, the least
\* significant first: the numbers of four and eight bytes are beyond the
\* integers that the checker computes with.
Digits(bytes) ==
    [k \in 1..(Len(bytes) \div 2) |-> LittleEndian(SubSeq(bytes, 2 * k - 1, 2 * k))]

\* decode_number that reads the bytes from the most significant one.
DecodeNumberBigEndian(data, index, width) ==
    IF ~HasBytes(data, index, width) THEN Decoded("UnexpectedEndOfData", <<>>, index)
    ELSE Decoded(ErrNone,
                 Digits([i \in 1..width |-> data[index + width + 1 - i]]),
                 index + width)

\* decode_number that does not look at the length of the data.
DecodeNumberUnchecked(data, index, width) ==
    Decoded(ErrNone,
            Digits([i \in 1..width |->
                      IF index + i <= Len(data) THEN data[index + i] ELSE 0]),
            index + width)

\* Integer and Float take four bytes, LongInteger eight.
decode_number(data, index, width) ==
    IF ~HasBytes(data, index, width) THEN Decoded("UnexpectedEndOfData", <<>>, index)
    ELSE Decoded(ErrNone, Digits(BytesAt(data, index, width)), index + width)

\* A two-byte count of characters, then the characters of unit bytes each.
decode_string(data, index, unit) ==
    IF ~HasBytes(data, index, 2) THEN Decoded("UnexpectedEndOfData", <<>>, index)
    ELSE LET count == LittleEndian(BytesAt(data, index, 2))
         IN  IF ~HasBytes(data, index + 2, count * unit)
             THEN Decoded("UnexpectedEndOfData", <<>>, index)
             ELSE Decoded(ErrNone,
                          [i \in 1..count |->
                              LittleEndian(BytesAt(data, index + 2 + (i - 1) * unit, unit))],
                          index + 2 + count * unit)

\* d, with index for the index of a value that did not decode.
FromIndex(d, index) == IF d.err # ErrNone THEN Decoded(d.err, <<>>, index) ELSE d

\* A presence flag, then the string when the flag is not zero.
decode_optional_string(data, index, unit) ==
    IF ~HasBytes(data, index, 1) THEN Decoded("UnexpectedEndOfData", <<>>, index)
    ELSE IF data[index + 1] = 0 THEN Decoded(ErrNone, <<>>, index + 1)
    ELSE FromIndex(decode_string(data, index + 1, unit), index)

decode(data, index, field_type) ==
    CASE field_type = "Bool" -> decode_bool(data, index)
      [] field_type = "Float" -> decode_number(data, index, 4)
      [] field_type = "Integer" -> decode_number(data, index, 4)
      [] field_type = "LongInteger" -> decode_number(data, index, 8)
      [] field_type = "StringU8" -> decode_string(data, index, 1)
      [] field_type = "StringU16" -> decode_string(data, index, 2)
      [] field_type = "OptionalStringU8" -> decode_optional_string(data, index, 1)
      [] OTHER -> decode_optional_string(data, index, 2)

\* The text shown for a decoded value, and the text shown when there is none.
Text(value) == [error |-> FALSE, text |-> value]
ErrorText == [error |-> TRUE, text |-> <<>>]

\* decode_data_by_fieldtype: the text of the value and the index after it;
\* a field that does not decode gives the error text and the index it got.
TextAndIndex(d, index) ==
    IF d.err # ErrNone THEN <<ErrorText, index>> ELSE <<Text(d.value), d.index>>

decode_data_by_fieldtype(packedfile, field_type, index) ==
    TextAndIndex(decode(packedfile, index, field_type), index)

(***************************************************************************)
(* Schema (module packedfile::db::schemas, spec section 4.2): a sequence   *)
(* of TableDefinitions, each the versions known of one table.              *)
(***************************************************************************)
TableNames == {"x", "z"}
Versions == {1, 2}

TableDefinition(version, fields) == [version |-> version, fields |-> fields]
TableDefinitions(name) == [name |-> name, versions |-> <<>>]

\* A decoded table: the definition it was decoded with and its rows.
DecodedTable(definition, rows) == [table_definition |-> definition, rows |-> rows]
NoTable == DecodedTable(TableDefinition(0, <<>>), <<>>)

\* Schema::get_table_definitions: the position of the table, zero for None.
get_table_definitions(tables, name) ==
    LET found == {i \in DOMAIN tables : tables[i].name = name}
    IN  IF found = {} THEN 0 ELSE CHOOSE i \in found : \A j \in found : i <= j

add_table_definitions(tables, table_definitions) == Append(tables, table_definitions)

\* add_table_definition that keeps the definition already there.
AddTableDefinitionPush(table_definitions, definition) ==
    [table_definitions EXCEPT !.versions = Append(@, definition)]

\* TableDefinitions::add_table_definition: replaces the definition of the
\* same version, or adds the definition.
add_table_definition(table_definitions, definition) ==
    LET same == {i \in DOMAIN table_definitions.versions :
                    table_definitions.versions[i].version = definition.version}
    IN  IF same = {}
        THEN [table_definitions EXCEPT !.versions = Append(@, definition)]
        ELSE [table_definitions EXCEPT
                !.versions = [i \in DOMAIN @ |-> IF i \in same THEN definition ELSE @[i]]]

\* The definitions of (name, version) in tables, in their order.
DefinitionsOf(tables, name, version) ==
    LET i == get_table_definitions(tables, name)
    IN  IF i = 0 THEN <<>>
        ELSE Retain(tables[i].versions,
                    [k \in DOMAIN tables[i].versions |->
                        tables[i].versions[k].version = version])

\* get_schema that falls back to the first version known of the table.
GetSchemaAnyVersion(name, version, tables) ==
    LET i == get_table_definitions(tables, name)
        found == DefinitionsOf(tables, name, version)
    IN  IF found # <<>> THEN <<Head(found)>>
        ELSE IF i = 0 \/ tables[i].versions = <<>> THEN <<>>
        ELSE <<Head(tables[i].versions)>>

\* DB::get_schema: Some(definition) as <<definition>>, None as <<>>.
get_schema(name, version, tables) ==
    LET found == DefinitionsOf(tables, name, version)
    IN  IF found = <<>> THEN <<>> ELSE <<Head(found)>>

\* DB::remove_table_version.
remove_table_version(name, version, tables) ==
    LET i == get_table_definitions(tables, name)
    IN  IF i = 0 \/ DefinitionsOf(tables, name, version) = <<>>
        THEN [err |-> "SchemaNotFound", tables |-> tables]
        ELSE [err |-> ErrNone,
              tables |-> [tables EXCEPT ![i].versions =
                            Retain(@, [k \in DOMAIN @ |-> @[k].version # version])]]

\* The versions listed for a table.
VersionsListed(tables, name) ==
    {v \in Versions : DefinitionsOf(tables, name, v) # <<>>}

\* The numbers of versions from the greatest to the least.
RECURSIVE Descending(_)
Descending(versions) ==
    IF versions = {} THEN <<>>
    ELSE LET greatest == CHOOSE v \in versions : \A w \in versions : w <= v
         IN  <<greatest>> \o Descending(versions \ {greatest})

\* PackedFileDBDecoder::update_versions_list: the list store of the versions
\* known of the table.
update_versions_list(tables, name) == Descending(VersionsListed(tables, name))

\* The schema file shipped for PFH5.
InitialTables ==
    << [name |-> "x",
        versions |-> << TableDefinition(1, <<"Bool", "StringU8">>),
                        TableDefinition(2, <<"StringU8">>) >>] >>

(***************************************************************************)
(* The state machine: one action per handler.                              *)
(***************************************************************************)
NoArgs(op, err) == Last(op, err, 0)

\* No PackedFile is shown in the right side of the window.
ViewClosed ==
    /\ packed_file_type = "None"
    /\ packed_file_index = 0
    /\ packed_file_data_decoded = NoTable
    /\ packed_file_list_store = <<>>
    /\ packed_file_data_encoded = <<>>
    /\ table_name = ""
    /\ initial_index = 0
    /\ table_definition = TableDefinition(0, <<>>)
    /\ fields_list_store = <<>>
    /\ index_data = 0
    /\ all_table_versions_list_store = <<>>

\* No ESF is shown and nothing was handed to the codec.
NoNode == [record |-> FALSE, name |-> "Invalid", children |-> <<>>]
NoEsf == [signature |-> "", root_node |-> NoNode]
NoValue == [field_type |-> "None", value |-> <<>>]

LibraryIdle ==
    /\ esf_data = NoEsf
    /\ model = <<>>
    /\ new_esf = NoEsf
    /\ codec_value = NoValue
    /\ codec_data = <<>>
    /\ codec_result = [field_type |-> "None", index |-> 0, err |-> ErrNone,
                       value |-> <<>>, new_index |-> 0]

\* The window as build_ui leaves it: the tree view unlocked, no exit button
\* on the display and the actions of My Mod disabled.
WindowIdle ==
    /\ is_folder_tree_view_locked = FALSE
    /\ folder_tree_view_extra_exit_button = FALSE
    /\ menu_bar_my_mod = MyModActions(FALSE)

\* The program started, no PackFile open.
Started ==
    /\ pack_file_decoded = PackFileNew
    /\ pack_file_decoded_extra = PackFileNew
    /\ mode = Normal
    /\ game_selected = "warhammer_2"
    /\ schema = "None"
    /\ disk = InitialDisk
    /\ last = NoArgs("init", ErrNone)
    /\ tables_definitions = <<>>
    /\ schema_file = InitialTables
    /\ ViewClosed
    /\ WindowIdle

Init == Started /\ LibraryIdle

\* The handlers that end with Schema::load, when they get there.
SchemaReloaded(op, err) ==
    op \in {"new_packfile", "open", "drop", "argument", "open_mod"} /\ err = ErrNone

\* The tables of the Schema that Schema::load gave, none for None.
SchemaTables(loaded, file) == IF loaded = "None" THEN <<>> ELSE file

\* Sets the shared state a handler of the File and My Mod menus leaves.
Apply(op, o) ==
    /\ pack_file_decoded' = o.pack_file
    /\ mode' = o.mode
    /\ game_selected' = o.game_selected
    /\ schema' = o.schema
    /\ disk' = o.disk
    /\ last' = NoArgs(op, o.err)
    /\ menu_bar_my_mod' = o.menu_bar_my_mod
    /\ UNCHANGED <<lib_vars, lock_vars>>
    /\ tables_definitions' = IF SchemaReloaded(op, o.err)
                              THEN SchemaTables(o.schema, schema_file)
                              ELSE tables_definitions
    /\ UNCHANGED pack_file_decoded_extra
    /\ UNCHANGED view_vars

\* Sets the PackFile a handler of the tree view leaves.
ApplyTree(op, err, pf, file_errors) ==
    /\ Len(pf.packed_files) <= MaxEntries
    /\ Range(Paths(pf)) \subseteq KnownPaths
    /\ pack_file_decoded' = pf
    /\ last' = Last(op, err, file_errors)
    /\ UNCHANGED <<lib_vars, window_vars>>
    /\ UNCHANGED <<pack_file_decoded_extra, mode, game_selected, schema, disk>>
    /\ UNCHANGED <<tables_definitions, view_vars>>

NewPackFile ==
    \E answer \in BOOLEAN :
        /\ are_you_sure(pack_file_decoded.is_modified, FALSE, answer)
        /\ Apply("new_packfile", NewPackFileOutcome)

\* menu_bar_open_packfile handler, the file chooser accepted with path.
OpenPackFile ==
    \E answer \in BOOLEAN, path \in ChooserPaths :
        /\ is_file(disk, path)
        /\ are_you_sure(pack_file_decoded.is_modified, FALSE, answer)
        /\ Apply("open", OpenPackfileOutcome(path, FALSE, ""))

\* A PackFile dropped onto the tree view.
OpenByDrop ==
    \E answer \in BOOLEAN, path \in ChooserPaths :
        /\ is_file(disk, path)
        /\ are_you_sure(pack_file_decoded.is_modified, FALSE, answer)
        /\ Apply("drop", OpenPackfileOutcome(path, FALSE, ""))

\* A PackFile named on the command line, opened when the program starts.
OpenByArgument ==
    \E path \in ChooserPaths :
        /\ last.op = "init"
        /\ Apply("argument", OpenPackfileOutcome(path, FALSE, ""))

\* A MyMod opened from the My Mod menu.
OpenMyMod ==
    \E answer \in BOOLEAN, game_folder_name \in Games :
        /\ is_file(disk, MyModPath(game_folder_name))
        /\ are_you_sure(pack_file_decoded.is_modified, FALSE, answer)
        /\ Apply("open_mod",
                 OpenPackfileOutcome(MyModPath(game_folder_name), TRUE, game_folder_name))

SavePackFile ==
    /\ PackFileOpen
    /\ is_file(disk, pack_file_decoded.file_path)
    /\ \E io_ok \in BOOLEAN : Apply("save", SavePackFileOutcome(io_ok))

\* Save As, also reached from Save for a PackFile that is no file on disk.
SavePackFileAs ==
    /\ PackFileOpen
    /\ \E io_ok \in BOOLEAN : Apply("save_as", SavePackFileAsOutcome(NewPack, io_ok))

ChangePackFileType ==
    /\ PackFileOpen
    /\ \E new_type \in {0, 3} :
        /\ pack_file_decoded' = ChangePackFileTypeOutcome(new_type)
        /\ last' = NoArgs("change_type", ErrNone)
        /\ UNCHANGED <<lib_vars, window_vars>>
        /\ UNCHANGED <<pack_file_decoded_extra, mode, game_selected, schema, disk>>
        /\ UNCHANGED <<tables_definitions, view_vars>>

MyModNew ==
    \E selected_game \in ComboGames, io_ok \in BOOLEAN :
        Apply("my_mod_new", MyModNewOutcome(ModName, selected_game, io_ok))

MyModDelete ==
    \E io_ok \in BOOLEAN, assets_ok \in BOOLEAN :
        /\ menu_bar_my_mod.delete
        /\ Apply("my_mod_delete", MyModDeleteOutcome(io_ok, assets_ok))

\* Path::is_dir: a folder is a path of one component that holds a file; the
\* path of a file is no folder.
is_dir(files, path) ==
    /\ Len(path) = 1
    /\ \E p \in DOMAIN files : files[p] # NoFile /\ p[1] = path[1]

\* menu_bar_my_mod_install handler: copy_ok is the result of fs::copy.  The
\* test for the destination folder is made on my_mod_path.
MyModInstallOutcome(copy_ok) ==
    LET my_mod_path == <<MyModFolder(mode.game_folder_name), mode.mod_name>>
        game_path == game_data_path(mode.game_folder_name)
        same == Outcome("IOError", pack_file_decoded, mode, game_selected, schema, disk)
    IN  IF mode.kind = "Normal" THEN [same EXCEPT !.err = "MyModNotSelected"]
        ELSE IF game_path = "" THEN [same EXCEPT !.err = "GamePathNotConfigured"]
        ELSE IF ~is_file(disk, my_mod_path) THEN [same EXCEPT !.err = "NotFound"]
        ELSE IF ~is_dir(disk, my_mod_path)
        THEN [same EXCEPT !.err = "DestinationNotFound"]
        ELSE IF ~copy_ok THEN same
        ELSE [same EXCEPT !.err = ErrNone,
                          !.disk = (<<game_path, mode.mod_name>> :> disk[my_mod_path])
                                   @@ disk]

MyModInstall ==
    \E copy_ok \in BOOLEAN :
        /\ menu_bar_my_mod.install
        /\ Apply("my_mod_install", MyModInstallOutcome(copy_ok))

\* settings_accept handler: with the base path of the MyMods changed while a
\* MyMod is open, the mode is disabled and the PackFile stays open.
PreferencesAcceptedOutcome(my_mods_base_path_changed) ==
    LET same == Outcome(ErrNone, pack_file_decoded, mode, game_selected, schema, disk)
    IN  IF my_mods_base_path_changed /\ mode.kind = "MyMod"
        THEN disable_my_mod_mode(same)
        ELSE same

PreferencesAccepted ==
    \E my_mods_base_path_changed \in BOOLEAN :
        Apply("preferences", PreferencesAcceptedOutcome(my_mods_base_path_changed))

ChangeGameSelected ==
    \E new_state \in Games :
        /\ game_selected' = new_state
        /\ last' = NoArgs("change_game", ErrNone)
        /\ UNCHANGED <<lib_vars, window_vars>>
        /\ UNCHANGED <<pack_file_decoded, pack_file_decoded_extra, mode, schema, disk>>
        /\ UNCHANGED <<tables_definitions, view_vars>>

AddFile ==
    /\ PackFileOpen
    /\ \E files \in FileChoices, tree_path \in TreeNodes(pack_file_decoded) :
        LET r == AddFileLoop(pack_file_decoded, files,
                             SelectedFolder(tree_path, pack_file_decoded), mode)
        IN  ApplyTree("add_file", r.err, r.pack_file, r.file_errors)

AddFolder ==
    /\ PackFileOpen
    /\ \E in_assets \in BOOLEAN, tree_path \in TreeNodes(pack_file_decoded) :
        LET r == AddFolderOutcome(FolderDb, in_assets,
                                  SelectedFolder(tree_path, pack_file_decoded))
        IN  ApplyTree("add_folder", r.err, r.pack_file, r.file_errors)

\* The children of packed_file_data_display destroyed: no PackedFile is
\* shown.
DisplayCleared ==
    /\ packed_file_type' = "None"
    /\ packed_file_index' = 0
    /\ packed_file_data_decoded' = NoTable
    /\ packed_file_list_store' = <<>>
    /\ packed_file_data_encoded' = <<>>
    /\ table_name' = ""
    /\ initial_index' = 0
    /\ table_definition' = TableDefinition(0, <<>>)
    /\ fields_list_store' = <<>>
    /\ index_data' = 0
    /\ all_table_versions_list_store' = <<>>

\* folder_tree_view_add_from_packfile handler: the display is cleared, then
\* the secondary PackFile is opened; when it opens, the exit button, the
\* copy button and the secondary tree view are put on the display and the
\* main tree view is locked.
AddFromPackFile ==
    /\ PackFileOpen
    /\ \E path \in {p \in ChooserPaths : is_file(disk, p)} :
        LET r == open_packfile_lib(disk, path)
        IN  /\ pack_file_decoded_extra' =
                   IF r.err = ErrNone THEN r.pack_file ELSE pack_file_decoded_extra
            /\ folder_tree_view_extra_exit_button' = (r.err = ErrNone)
            /\ is_folder_tree_view_locked' =
                   IF r.err = ErrNone THEN TRUE ELSE is_folder_tree_view_locked
            /\ last' = NoArgs("add_from_packfile", r.err)
            /\ UNCHANGED <<lib_vars, menu_bar_my_mod>>
            /\ UNCHANGED <<pack_file_decoded, mode, game_selected, schema, disk>>
            /\ UNCHANGED <<tables_definitions, schema_file>>
            /\ DisplayCleared

CopyFromExtra ==
    /\ PackFileOpen
    /\ pack_file_decoded_extra.file_name # ""
    /\ folder_tree_view_extra_exit_button
    /\ \E source \in TreeNodes(pack_file_decoded_extra),
          destination \in TreeNodes(pack_file_decoded) :
        /\ get_type_of_selected_tree_path(destination, pack_file_decoded) # "File"
        /\ LET r == CopyOutcome(source, destination)
           IN  ApplyTree("copy", r.err, r.pack_file, 0)

Delete ==
    /\ PackFileOpen
    /\ \E tree_path \in TreeNodes(pack_file_decoded) \ {<<>>} :
        LET r == DeleteOutcome(tree_path)
        IN  ApplyTree("delete", r.err, r.pack_file, 0)

Rename ==
    /\ PackFileOpen
    /\ \E tree_path \in TreeNodes(pack_file_decoded) \ {<<>>}, new_name \in NewNames :
        LET r == RenameOutcome(tree_path, new_name)
        IN  ApplyTree("rename", r.err, r.pack_file, 0)

PatchSiegeAi ==
    /\ PackFileOpen
    /\ \E io_ok \in BOOLEAN,
          gone \in {{}} \cup {{i} : i \in DOMAIN pack_file_decoded.packed_files} :
        LET r == PatchSiegeAiOutcome(gone, io_ok)
        IN  /\ pack_file_decoded' = r.pack_file
            /\ disk' = r.disk
            /\ last' = NoArgs("patch_siege_ai", r.err)
            /\ UNCHANGED <<lib_vars, window_vars>>
            /\ UNCHANGED <<pack_file_decoded_extra, mode, game_selected, schema>>
            /\ UNCHANGED <<tables_definitions, view_vars>>

GenerateDependencyPack ==
    /\ PackFileOpen
    /\ \E io_ok \in BOOLEAN :
        LET r == GenerateDependencyPackOutcome(io_ok)
        IN  /\ disk' = r.disk
            /\ last' = NoArgs("generate_dependency_pack", r.err)
            /\ UNCHANGED <<lib_vars, window_vars>>
            /\ UNCHANGED <<pack_file_decoded, pack_file_decoded_extra, mode,
                           game_selected, schema>>
            /\ UNCHANGED <<tables_definitions, view_vars>>

ApplyTemplate ==
    \E template \in Templates :
        LET r == apply_template(template, pack_file_decoded, schema)
        IN  ApplyTree("apply_template", r.err, r.pack_file, 0)

\* The open container under the requests of the tree view.
NextContainer ==
    \/ OpenPackFile
    \/ OpenMyMod
    \/ AddFile
    \/ AddFolder
    \/ AddFromPackFile
    \/ CopyFromExtra
    \/ Delete
    \/ Rename
    \/ ApplyTemplate

Spec == Init /\ [][NextContainer]_vars

\* The PackFile and the files on disk under the requests that write files.
NextFiles ==
    \/ OpenPackFile
    \/ SavePackFile
    \/ SavePackFileAs
    \/ MyModNew
    \/ Delete
    \/ PatchSiegeAi
    \/ GenerateDependencyPack

SpecFiles == Init /\ [][NextFiles]_vars

\* The shared state under the requests that replace the open PackFile.
NextOpen ==
    \/ NewPackFile
    \/ OpenPackFile
    \/ OpenByDrop
    \/ OpenByArgument
    \/ OpenMyMod
    \/ ChangePackFileType
    \/ MyModDelete
    \/ ChangeGameSelected
    \/ Delete

SpecOpen == Init /\ [][NextOpen]_vars

\* The PackFile and its file under adds, deletes and saves.
NextSave ==
    \/ OpenPackFile
    \/ AddFile
    \/ AddFolder
    \/ Delete
    \/ SavePackFile
    \/ GenerateDependencyPack

SpecSave == Init /\ [][NextSave]_vars

\* my_mod_new_accept handler with any of the names.
MyModNewNamed ==
    \E full_mod_name \in ModNames, selected_game \in Games, io_ok \in BOOLEAN :
        Apply("my_mod_new", MyModNewOutcome(full_mod_name, selected_game, io_ok))

\* The mode and the open PackFile under the requests that set the mode.
NextMode ==
    \/ NewPackFile
    \/ OpenMyMod
    \/ SavePackFileAs
    \/ MyModNewNamed
    \/ MyModDelete
    \/ MyModInstall
    \/ PreferencesAccepted
    \/ ChangeGameSelected

SpecMode == Init /\ [][NextMode]_vars

(***************************************************************************)
(* The DB decoder (module ui::packedfile_db, spec section 4.4) and its     *)
(* handlers.  A row of fields_list_store keeps the type of the field and   *)
(* the text of the value decoded for the first row of the table.           *)
(***************************************************************************)
Row(field_type, first_row_decoded) ==
    [field_type |-> field_type, first_row_decoded |-> first_row_decoded]

\* DBHeader::read: the version and the count of entries, one byte each, and
\* the index after them.
DBHeaderRead(data) ==
    IF ~HasBytes(data, 0, 2)
    THEN [err |-> "UnexpectedEndOfData", version |-> 0, index |-> 0]
    ELSE [err |-> ErrNone, version |-> data[1], index |-> 2]

\* The DB PackedFiles that can be selected: the table of each and its data.
EntryBoolString == [table_name |-> "x", data |-> <<1, 1, 1, 2, 0, 7, 8, 0>>]
EntryNoDefinition == [table_name |-> "z", data |-> <<2, 1, 0, 1, 0, 3>>]
EntryString == [table_name |-> "x", data |-> <<2, 1, 1, 0, 9>>]
EntryLong == [table_name |-> "z", data |-> <<1, 1, 2, 0, 5, 6, 0, 0, 0, 0>>]
EntryNoHeader == [table_name |-> "x", data |-> <<1>>]
DecoderEntries ==
    {EntryBoolString, EntryNoDefinition, EntryString, EntryLong, EntryNoHeader}

(***************************************************************************)
(* Table codec (modules packedfile::loc and packedfile::db, spec section  *)
(* 4.3).  A value is the sequence decode gives for it; a row is a sequence *)
(* of values, one for each field.                                          *)
(***************************************************************************)
RECURSIVE ToBytes(_, _)
ToBytes(n, width) ==
    IF width = 0 THEN <<>> ELSE <<n % 256>> \o ToBytes(n \div 256, width - 1)

RECURSIVE Flatten(_)
Flatten(seqs) == IF seqs = <<>> THEN <<>> ELSE Head(seqs) \o Flatten(Tail(seqs))

encode_string(value, unit) ==
    ToBytes(Len(value), 2) \o Flatten([i \in DOMAIN value |-> ToBytes(value[i], unit)])

encode(value, field_type) ==
    CASE field_type = "Bool" -> value
      [] field_type \in {"Float", "Integer", "LongInteger"} ->
            Flatten([k \in DOMAIN value |-> ToBytes(value[k], 2)])
      [] field_type = "StringU8" -> encode_string(value, 1)
      [] field_type = "StringU16" -> encode_string(value, 2)
      [] field_type = "OptionalStringU8" ->
            IF value = <<>> THEN <<0>> ELSE <<1>> \o encode_string(value, 1)
      [] OTHER -> IF value = <<>> THEN <<0>> ELSE <<1>> \o encode_string(value, 2)

EncodeRow(row, fields) == Flatten([k \in DOMAIN fields |-> encode(row[k], fields[k])])

EncodeRows(rows, fields) == Flatten([i \in DOMAIN rows |-> EncodeRow(rows[i], fields)])

\* The cells of a row with value before those of rest.
PrependCell(value, rest) ==
    IF rest.err # ErrNone THEN rest
    ELSE [err |-> ErrNone, cells |-> <<value>> \o rest.cells, index |-> rest.index]

\* The cells of one row from field k on; a row that ends early is an error.
RECURSIVE DecodeCells(_, _, _, _)
RECURSIVE CellsAfter(_, _, _, _, _)
CellsAfter(d, data, index, fields, k) ==
    IF d.err # ErrNone THEN [err |-> d.err, cells |-> <<>>, index |-> index]
    ELSE PrependCell(d.value, DecodeCells(data, d.index, fields, k + 1))

DecodeCells(data, index, fields, k) ==
    IF k > Len(fields) THEN [err |-> ErrNone, cells |-> <<>>, index |-> index]
    ELSE CellsAfter(decode(data, index, fields[k]), data, index, fields, k)

\* The rows of a table with the row of cells before those of rest.
PrependRow(cells, rest) ==
    IF rest.err # ErrNone THEN rest
    ELSE [err |-> ErrNone, rows |-> <<cells>> \o rest.rows]

\* The rows of data from index on, until the buffer is exhausted.
RECURSIVE DecodeRows(_, _, _)
RECURSIVE RowsAfter(_, _, _)
RowsAfter(row, data, fields) ==
    IF row.err # ErrNone THEN [err |-> row.err, rows |-> <<>>]
    ELSE PrependRow(row.cells, DecodeRows(data, row.index, fields))

DecodeRows(data, index, fields) ==
    IF index >= Len(data) THEN [err |-> ErrNone, rows |-> <<>>]
    ELSE IF fields = <<>> THEN [err |-> "MalformedField", rows |-> <<>>]
    ELSE RowsAfter(DecodeCells(data, index, fields, 1), data, fields)

\* The fields of a Loc PackedFile: key, text and tooltip.
LocFields == <<"StringU16", "StringU16", "Bool">>
LocDefinition == TableDefinition(0, LocFields)

\* Loc::read.
ReadAs(r, definition) ==
    IF r.err # ErrNone THEN [err |-> r.err, table |-> NoTable]
    ELSE [err |-> ErrNone, table |-> DecodedTable(definition, r.rows)]

LocRead(data) == ReadAs(DecodeRows(data, 0, LocFields), LocDefinition)

\* Loc::save.
LocSave(table) == EncodeRows(table.rows, LocFields)

\* DB::read: the definition of the version in the header, or SchemaNotFound.
DBReadWith(found, data, index) ==
    IF found = <<>> THEN [err |-> "SchemaNotFound", table |-> NoTable]
    ELSE ReadAs(DecodeRows(data, index, found[1].fields), found[1])

DBRead(data, name, tables) ==
    IF DBHeaderRead(data).err # ErrNone
    THEN [err |-> DBHeaderRead(data).err, table |-> NoTable]
    ELSE DBReadWith(get_schema(name, DBHeaderRead(data).version, tables), data,
                    DBHeaderRead(data).index)

\* DB::save for the data it was read from: the header and the rows.
DBSave(table, data) ==
    SubSeq(data, 1, 2) \o EncodeRows(table.rows, table.table_definition.fields)

\* The keys of the rows of a Loc.
Keys(rows) == [i \in DOMAIN rows |-> rows[i][1]]

\* The character new_text.contains(' ') looks for.
Space == 32

\* The whitespace characters of the keys of the model: space and tab.
Whitespace == {Space, 9}

\* The key column of a Loc: not empty, no whitespace, unique.
ValidKeys(rows) ==
    /\ \A i \in DOMAIN rows : rows[i][1] # <<>>
    /\ \A i \in DOMAIN rows : \A c \in DOMAIN rows[i][1] : rows[i][1][c] \notin Whitespace
    /\ \A i, j \in DOMAIN rows : rows[i][1] = rows[j][1] => i = j

\* A CSV file: its lines, each the cells of a row; a cell is the text of a
\* value, or the error text when it does not parse as the type of its field.
CsvParses(csv, fields) ==
    \A i \in DOMAIN csv : \A k \in DOMAIN csv[i] : ~csv[i][k].error

\* DBData::import_csv and LocData::import_csv: the rows of the file replace
\* the rows of the table when every line has a cell for each field and every
\* cell parses, and for a Loc when the keys are valid; otherwise the table is
\* as it was.
import_csv(table, csv, is_loc) ==
    LET fields == table.table_definition.fields
        rows == [i \in DOMAIN csv |-> [k \in DOMAIN csv[i] |-> csv[i][k].text]]
    IN  IF \E i \in DOMAIN csv : Len(csv[i]) # Len(fields)
        THEN [err |-> "MalformedField", table |-> table]
        ELSE IF ~CsvParses(csv, fields) THEN [err |-> "MalformedField", table |-> table]
        ELSE IF is_loc /\ ~ValidKeys(rows) THEN [err |-> "DuplicateKey", table |-> table]
        ELSE [err |-> ErrNone, table |-> [table EXCEPT !.rows = rows]]

(***************************************************************************)
(* The PackedFile shown in the right side of the window: the handler of    *)
(* the selection of the tree view and the handlers of the Loc and DB       *)
(* views.                                                                  *)
(***************************************************************************)
LocNames == {"t.loc"}

\* The type the selection handler gives to the PackedFile at tree_path.
packed_file_type_of(tree_path) ==
    IF tree_path[Len(tree_path)] \in LocNames THEN "LOC"
    ELSE IF tree_path[1] = "db" THEN "DB"
    ELSE "None"

KeyA == <<97>>
KeyB == <<98>>
KeyWithSpace == <<97, Space, 98>>
KeyWithTab == <<97, 9, 98>>
NewTexts == {<<>>, KeyA, KeyB, KeyWithSpace, KeyWithTab}

\* format!("New_line_{}", j).
NewLine(j) == <<78, 101, 119, 95, 108, 105, 110, 101, 95, 48 + j>>
NewLineText == <<78, 101, 119, 95, 108, 105, 110, 101, 95, 116, 101, 120, 116>>

\* The PackFile with the tables, as opened from its file.
TablesPackFiles ==
    << PackedFile(<<"text", "t.loc">>, LocSave(DecodedTable(LocDefinition, <<<<KeyA, <<>>, <<1>>>>>>))),
       PackedFile(<<"db", "x", "a">>, EntryBoolString.data),
       PackedFile(<<"db", "z", "b">>, EntryNoDefinition.data),
       PackedFile(<<"db", "x", "c">>, EntryString.data),
       PackedFile(<<"db", "z", "d">>, EntryLong.data),
       PackedFile(<<"db", "x", "e">>, EntryNoHeader.data) >>

TablesPath == <<"files", "tables.pack">>

TablesPack ==
    [add_packedfiles(new_packfile("tables.pack", "PFH5"), TablesPackFiles)
        EXCEPT !.file_path = TablesPath]

\* The files on disk when the PackFile with the tables is among them.
TablesDisk ==
    [p \in DiskPaths \cup {TablesPath} |->
        IF p = TablesPath THEN Encode(TablesPack) ELSE InitialDisk[p]]

\* The CSV files of the chooser.
CsvLoc == << <<Text(KeyB), Text(<<>>), Text(<<0>>)>> >>
CsvLocTwice == << <<Text(KeyB), Text(<<>>), Text(<<0>>)>>, <<Text(KeyB), Text(KeyA), Text(<<1>>)>> >>
CsvDb == << <<Text(<<8>>)>> >>
CsvBadCell == << <<Text(<<8>>)>>, <<ErrorText>> >>
CsvFiles == {CsvLoc, CsvLocTwice, CsvDb, CsvBadCell}

\* packfile::update_packed_file_data_loc.
update_packed_file_data_loc(table, pf, i) ==
    [pf EXCEPT !.packed_files[i].packed_file_data = LocSave(table)]

\* packfile::update_packed_file_data_db.
update_packed_file_data_db(table, pf, i) ==
    [pf EXCEPT !.packed_files[i].packed_file_data = DBSave(table, @)]

View(pf, table, list_store) == [pack_file |-> pf, table |-> table, list_store |-> list_store]

SameView == View(pack_file_decoded, packed_file_data_decoded, packed_file_list_store)

\* The table of the list store saved to the PackFile, which gets modified.
LocSaved(list_store) ==
    LET table == [packed_file_data_decoded EXCEPT !.rows = list_store]
    IN  View(set_modified(TRUE,
                 update_packed_file_data_loc(table, pack_file_decoded, packed_file_index)),
             table, list_store)

\* packed_file_tree_view_cell_key edited handler.
LocKeyEditedOutcome(row, new_text) ==
    LET old_text == packed_file_list_store[row][1]
        key_already_exists ==
            \E line \in DOMAIN packed_file_list_store :
                packed_file_list_store[line][1] = new_text
    IN  IF old_text = new_text THEN [err |-> ErrNone, view |-> SameView]
        ELSE IF new_text = <<>> THEN [err |-> "MalformedField", view |-> SameView]
        ELSE IF \E c \in DOMAIN new_text : new_text[c] = Space
        THEN [err |-> "MalformedField", view |-> SameView]
        ELSE IF key_already_exists THEN [err |-> "DuplicateKey", view |-> SameView]
        ELSE [err |-> ErrNone,
              view |-> LocSaved([packed_file_list_store EXCEPT ![row][1] = new_text])]

\* The key of a new row with no search among the keys in use.
NewKeyUnchecked(list_store, line, j) == NewLine(1)

\* The search of context_menu_packedfile_loc_add_rows for a key not in use.
RECURSIVE NewKeyFrom(_, _, _)
NewKeyFrom(list_store, line, j) ==
    IF line > Len(list_store) THEN NewLine(j)
    ELSE IF list_store[line][1] = NewLine(j) THEN NewKeyFrom(list_store, 1, j + 1)
    ELSE NewKeyFrom(list_store, line + 1, j)

RECURSIVE AddRowsLoop(_, _)
AddRowsLoop(list_store, number_rows) ==
    IF number_rows = 0 THEN list_store
    ELSE AddRowsLoop(Append(list_store, <<NewKeyFrom(list_store, 1, 1), NewLineText, <<1>>>>),
                     number_rows - 1)

\* context_menu_packedfile_loc_add_rows handler; parsed is whether the text
\* of the entry is a number.
LocAddRowsOutcome(parsed, number_rows) ==
    IF ~parsed THEN [err |-> "MalformedField", view |-> SameView]
    ELSE [err |-> ErrNone, view |-> LocSaved(AddRowsLoop(packed_file_list_store, number_rows))]

\* context_menu_packedfile_loc_delete_rows handler.
LocDeleteRowsOutcome(selected_rows) ==
    IF selected_rows = {} THEN [err |-> ErrNone, view |-> SameView]
    ELSE [err |-> ErrNone,
          view |-> LocSaved(Retain(packed_file_list_store,
                                   [i \in DOMAIN packed_file_list_store |->
                                       i \notin selected_rows]))]

\* context_menu_packedfile_loc_import_csv handler.
LocImportCsvOutcome(csv) ==
    LET r == import_csv(packed_file_data_decoded, csv, TRUE)
    IN  IF r.err # ErrNone THEN [err |-> r.err, view |-> SameView]
        ELSE [err |-> ErrNone,
              view |-> View(update_packed_file_data_loc(r.table,
                                set_modified(TRUE, pack_file_decoded), packed_file_index),
                            r.table, r.table.rows)]

\* context_menu_packedfile_db_import_csv handler; load_ok and update_ok are
\* what load_data_to_tree_view and update_packed_file_data_db answer.
DbImportCsvOutcome(csv, load_ok, update_ok) ==
    LET packed_file_data_copy == packed_file_data_decoded
        r == import_csv(packed_file_data_decoded, csv, FALSE)
        modified == set_modified(TRUE, pack_file_decoded)
    IN  IF r.err # ErrNone THEN [err |-> r.err, view |-> SameView]
        ELSE IF ~load_ok
        THEN [err |-> "MalformedField",
              view |-> View(modified, packed_file_data_copy, packed_file_list_store)]
        ELSE IF ~update_ok
        THEN [err |-> "MalformedField",
              view |-> View(modified, packed_file_data_copy, r.table.rows)]
        ELSE [err |-> ErrNone,
              view |-> View(update_packed_file_data_db(r.table, modified, packed_file_index),
                            r.table, r.table.rows)]

\* The decoder of the DB PackedFile is not shown.
DecoderClosed ==
    /\ initial_index' = 0
    /\ table_definition' = TableDefinition(0, <<>>)
    /\ fields_list_store' = <<>>
    /\ index_data' = 0
    /\ all_table_versions_list_store' = <<>>

\* What the selection handler reads from packed_file: a Loc, a DB when
\* there is a schema, nothing otherwise.
ReadPackedFile(packed_file, kind) ==
    IF kind = "LOC" THEN LocRead(packed_file.packed_file_data)
    ELSE IF kind = "DB" /\ schema # "None"
    THEN DBRead(packed_file.packed_file_data, packed_file.packed_file_path[2],
                tables_definitions)
    ELSE [err |-> "SchemaNotFound", table |-> NoTable]

ShowPackedFile(i, packed_file, kind, r) ==
    /\ kind \in {"LOC", "DB"}
    /\ packed_file_type' = kind
    /\ packed_file_index' = i
    /\ packed_file_data_encoded' =
           IF kind = "DB" THEN packed_file.packed_file_data ELSE <<>>
    /\ table_name' = IF kind = "DB" THEN packed_file.packed_file_path[2] ELSE ""
    /\ packed_file_data_decoded' = r.table
    /\ packed_file_list_store' = r.table.rows
    /\ DecoderClosed
    /\ last' = NoArgs("select", r.err)
    /\ folder_tree_view_extra_exit_button' = FALSE
    /\ UNCHANGED <<lib_vars, is_folder_tree_view_locked, menu_bar_my_mod>>
    /\ UNCHANGED <<pack_file_decoded, pack_file_decoded_extra, mode, game_selected,
                   schema, disk, tables_definitions, schema_file>>

\* The cursor_changed handler with no regard for the lock.
CursorChangedUnlocked(locked) == TRUE

\* Whether the cursor_changed handler of the main tree view acts.
CursorChangedActs(locked) == ~locked

\* The handler of the selection of the tree view, on the PackedFile at i;
\* with the tree view locked it returns at once.
SelectPackedFile ==
    \E i \in DOMAIN pack_file_decoded.packed_files :
        IF CursorChangedActs(is_folder_tree_view_locked)
        THEN ShowPackedFile(i, pack_file_decoded.packed_files[i],
                 packed_file_type_of(pack_file_decoded.packed_files[i].packed_file_path),
                 ReadPackedFile(pack_file_decoded.packed_files[i],
                     packed_file_type_of(
                         pack_file_decoded.packed_files[i].packed_file_path)))
        ELSE /\ last' = NoArgs("select_locked", ErrNone)
             /\ UNCHANGED <<pack_file_decoded, pack_file_decoded_extra, mode,
                            game_selected, schema, disk, tables_definitions,
                            view_vars, lib_vars, window_vars>>

\* folder_tree_view_extra_exit_button handler: the lock is released, the
\* display is emptied and the tips are shown.
ExitAddFromPackFile ==
    /\ folder_tree_view_extra_exit_button
    /\ is_folder_tree_view_locked' = FALSE
    /\ folder_tree_view_extra_exit_button' = FALSE
    /\ DisplayCleared
    /\ last' = NoArgs("exit_add_from_packfile", ErrNone)
    /\ UNCHANGED <<pack_file_decoded, pack_file_decoded_extra, mode, game_selected,
                   schema, disk, tables_definitions, schema_file, lib_vars,
                   menu_bar_my_mod>>

\* A table is shown for the PackedFile selected.
LocOpen == packed_file_type = "LOC" /\ packed_file_data_decoded # NoTable
DbOpen == packed_file_type = "DB" /\ packed_file_data_decoded # NoTable

ApplyView(op, o) ==
    /\ pack_file_decoded' = o.view.pack_file
    /\ packed_file_data_decoded' = o.view.table
    /\ packed_file_list_store' = o.view.list_store
    /\ last' = NoArgs(op, o.err)
    /\ UNCHANGED <<lib_vars, window_vars>>
    /\ UNCHANGED <<pack_file_decoded_extra, mode, game_selected, schema, disk,
                   tables_definitions, schema_file, packed_file_type, packed_file_index,
                   packed_file_data_encoded, table_name, initial_index, table_definition,
                   fields_list_store, index_data, all_table_versions_list_store>>

\* The key cell edited; an index beyond the entries ends the program in
\* update_packed_file_data_loc.
LocKeyEdited ==
    /\ LocOpen
    /\ packed_file_index \in DOMAIN pack_file_decoded.packed_files
    /\ \E row \in DOMAIN packed_file_list_store, new_text \in NewTexts :
        ApplyView("loc_key_edited", LocKeyEditedOutcome(row, new_text))

LocAddRows ==
    /\ LocOpen
    /\ \E parsed \in BOOLEAN, number_rows \in 1..2 :
        /\ Len(packed_file_list_store) + number_rows <= MaxRows
        /\ ApplyView("loc_add_rows", LocAddRowsOutcome(parsed, number_rows))

LocDeleteRows ==
    /\ LocOpen
    /\ \E selected_rows \in SUBSET DOMAIN packed_file_list_store :
        /\ selected_rows # {}
        /\ ApplyView("loc_delete_rows", LocDeleteRowsOutcome(selected_rows))

LocImportCsv ==
    /\ LocOpen
    /\ \E csv \in CsvFiles : ApplyView("loc_import_csv", LocImportCsvOutcome(csv))

DbImportCsv ==
    /\ DbOpen
    /\ \E csv \in CsvFiles, load_ok \in BOOLEAN, update_ok \in BOOLEAN :
        ApplyView("db_import_csv", DbImportCsvOutcome(csv, load_ok, update_ok))

\* The PackFile with the tables is open and its schema is loaded.
InitTables ==
    /\ pack_file_decoded = TablesPack
    /\ pack_file_decoded_extra = PackFileNew
    /\ mode = Normal
    /\ game_selected = "warhammer_2"
    /\ schema = SchemaLoad("PFH5")
    /\ disk = TablesDisk
    /\ last = NoArgs("open", ErrNone)
    /\ tables_definitions = InitialTables
    /\ schema_file = InitialTables
    /\ ViewClosed
    /\ LibraryIdle
    /\ WindowIdle

\* The Loc and DB tables under edits of keys, rows and CSV imports.
NextTables ==
    \/ SelectPackedFile
    \/ LocKeyEdited
    \/ LocAddRows
    \/ LocDeleteRows
    \/ LocImportCsv
    \/ DbImportCsv

SpecTables == InitTables /\ [][NextTables]_vars

\* add_field_to_data_view that adds the row whatever the decoding gives.
AddFieldAlways(list_store, packedfile, field_type, index) ==
    [err |-> decode(packedfile, index, field_type).err,
     list_store |-> Append(list_store,
                       Row(field_type,
                           decode_data_by_fieldtype(packedfile, field_type, index)[1])),
     index |-> decode(packedfile, index, field_type).index]

\* PackedFileDBDecoder::add_field_to_data_view: decodes the field at
\* index_data and adds its row; a field that does not decode is not added.
AddDecoded(d, list_store, field_type, index) ==
    IF d.err # ErrNone
    THEN [err |-> d.err, list_store |-> list_store, index |-> index]
    ELSE [err |-> ErrNone,
          list_store |-> Append(list_store, Row(field_type, Text(d.value))),
          index |-> d.index]

add_field_to_data_view(list_store, packedfile, field_type, index) ==
    AddDecoded(decode(packedfile, index, field_type), list_store, field_type, index)

\* The loop of update_first_row_decoded, from row i on.
RECURSIVE UpdateRows(_, _, _, _)
RECURSIVE UpdateRow(_, _, _, _)
UpdateRow(decoded_data, packedfile, list_store, i) ==
    UpdateRows(packedfile, [list_store EXCEPT ![i].first_row_decoded = decoded_data[1]],
               i + 1, decoded_data[2])

UpdateRows(packedfile, list_store, i, index) ==
    IF i > Len(list_store) THEN [list_store |-> list_store, index |-> index]
    ELSE UpdateRow(decode_data_by_fieldtype(packedfile, list_store[i].field_type, index),
                   packedfile, list_store, i)

\* update_first_row_decoded that goes on from the index of the session.
UpdateFromCurrentIndex(packedfile, list_store, index) ==
    UpdateRows(packedfile, list_store, 1, index_data)

\* update_first_row_decoded that leaves the texts of the rows as they were.
UpdateIndexOnly(packedfile, list_store, index) ==
    [list_store |-> list_store,
     index |-> UpdateRows(packedfile, list_store, 1, index).index]

update_first_row_decoded(packedfile, list_store, index) ==
    UpdateRows(packedfile, list_store, 1, index)

\* update_decoder_view with Some(definition): the rows of the fields of the
\* definition, decoded from index on, and the index after them.
LoadDefinitionRows(packedfile, definition, index) ==
    UpdateRows(packedfile,
               [i \in DOMAIN definition.fields |-> Row(definition.fields[i], ErrorText)],
               1, index)

\* PackedFileDBDecoder::return_data_from_data_view.
return_data_from_data_view(list_store) ==
    [i \in DOMAIN list_store |-> list_store[i].field_type]

\* ListStore::move_before and move_after on neighbours.
Swap(list_store, i, j) ==
    [list_store EXCEPT ![i] = list_store[j], ![j] = list_store[i]]

RemoveRow(list_store, row) ==
    Retain(list_store, [i \in DOMAIN list_store |-> i # row])

Session(list_store, index) == [list_store |-> list_store, index |-> index]

\* One of the "Use this" buttons of the decoder.
UseFieldOutcome(field_type) ==
    add_field_to_data_view(fields_list_store, packed_file_data_encoded,
                           field_type, index_data)

\* decoder_move_row_up with the row selected.
MoveRowUpOutcome(row) ==
    LET moved == IF row > 1 THEN Swap(fields_list_store, row, row - 1)
                 ELSE fields_list_store
    IN  update_first_row_decoded(packed_file_data_encoded, moved, initial_index)

\* decoder_move_row_down with the row selected.
MoveRowDownOutcome(row) ==
    LET moved == IF row < Len(fields_list_store)
                 THEN Swap(fields_list_store, row, row + 1)
                 ELSE fields_list_store
    IN  update_first_row_decoded(packed_file_data_encoded, moved, initial_index)

\* decoder_delete_row with the row selected, zero for no selection.
DeleteRowOutcome(row) ==
    LET removed == IF row = 0 THEN fields_list_store
                   ELSE RemoveRow(fields_list_store, row)
    IN  update_first_row_decoded(packed_file_data_encoded, removed, initial_index)

\* A decoder is shown for a DB PackedFile.
DecoderOpen == packed_file_data_encoded # <<>> /\ initial_index # 0

ApplyDecoder(op, err, session) ==
    /\ fields_list_store' = session.list_store
    /\ index_data' = session.index
    /\ last' = NoArgs(op, err)
    /\ UNCHANGED <<lib_vars, window_vars>>
    /\ UNCHANGED <<pack_file_decoded, pack_file_decoded_extra, mode, game_selected,
                   schema, disk, tables_definitions, schema_file, packed_file_type,
                   packed_file_index, packed_file_data_decoded, packed_file_list_store,
                   packed_file_data_encoded, initial_index, table_definition,
                   table_name, all_table_versions_list_store>>

\* The definition the decoder starts from: the one of the schema for the
\* table and the version of the header, or a new one of that version.
DecodeModeDefinition ==
    LET db_header == DBHeaderRead(packed_file_data_encoded)
        found == get_schema(table_name, db_header.version, tables_definitions)
    IN  IF db_header.err # ErrNone THEN TableDefinition(0, <<>>)
        ELSE IF found # <<>> THEN found[1]
        ELSE TableDefinition(db_header.version, <<>>)

\* The rows and the index the decoder starts with; nothing when the header
\* of the PackedFile cannot be read.
DecodeModeSession ==
    LET db_header == DBHeaderRead(packed_file_data_encoded)
    IN  IF db_header.err # ErrNone THEN Session(<<>>, 0)
        ELSE LoadDefinitionRows(packed_file_data_encoded, DecodeModeDefinition,
                                db_header.index)

\* packed_file_decode_mode_button handler: the table shown is destroyed and
\* the decoder is shown for the DB PackedFile selected.
DecodeMode ==
    /\ packed_file_type = "DB"
    /\ schema # "None"
    /\ packed_file_data_decoded' = NoTable
    /\ packed_file_list_store' = <<>>
    /\ initial_index' = DBHeaderRead(packed_file_data_encoded).index
    /\ table_definition' = DecodeModeDefinition
    /\ fields_list_store' = DecodeModeSession.list_store
    /\ index_data' = DecodeModeSession.index
    /\ all_table_versions_list_store' =
           IF DBHeaderRead(packed_file_data_encoded).err # ErrNone THEN <<>>
           ELSE update_versions_list(tables_definitions, table_name)
    /\ last' = NoArgs("decode_mode", DBHeaderRead(packed_file_data_encoded).err)
    /\ UNCHANGED <<lib_vars, window_vars>>
    /\ UNCHANGED <<pack_file_decoded, pack_file_decoded_extra, mode, game_selected,
                   schema, disk, tables_definitions, schema_file, packed_file_type,
                   packed_file_index, packed_file_data_encoded, table_name>>

UseField ==
    /\ DecoderOpen
    /\ Len(fields_list_store) < MaxFields
    /\ \E field_type \in FieldTypes :
        LET r == UseFieldOutcome(field_type)
        IN  ApplyDecoder("use_field", r.err, Session(r.list_store, r.index))

DeleteAllFields ==
    /\ DecoderOpen
    /\ fields_list_store # <<>>
    /\ ApplyDecoder("delete_all_fields", ErrNone, Session(<<>>, initial_index))

MoveRowUp ==
    /\ DecoderOpen
    /\ \E row \in DOMAIN fields_list_store :
        ApplyDecoder("move_row_up", ErrNone, MoveRowUpOutcome(row))

MoveRowDown ==
    /\ DecoderOpen
    /\ \E row \in DOMAIN fields_list_store :
        ApplyDecoder("move_row_down", ErrNone, MoveRowDownOutcome(row))

DeleteRow ==
    /\ DecoderOpen
    /\ fields_list_store # <<>>
    /\ \E row \in 0..Len(fields_list_store) :
        ApplyDecoder("delete_row", ErrNone, DeleteRowOutcome(row))

\* The decoder session under the proposals, moves and deletions of fields.
NextDecoder ==
    \/ SelectPackedFile
    \/ DecodeMode
    \/ UseField
    \/ DeleteAllFields
    \/ MoveRowUp
    \/ MoveRowDown
    \/ DeleteRow

SpecDecoder == InitTables /\ [][NextDecoder]_vars

(***************************************************************************)
(* The definitions of the schema under the decoder: saving the definition  *)
(* of the session, removing and loading a version of the table.            *)
(***************************************************************************)
\* Schema with the TableDefinitions of name, added when it has none.
WithTable(tables, name) ==
    IF get_table_definitions(tables, name) = 0
    THEN add_table_definitions(tables, TableDefinitions(name))
    ELSE tables

\* The definition at its table, the table being in tables.
PutDefinition(tables, name, definition) ==
    [tables EXCEPT ![get_table_definitions(tables, name)] =
        add_table_definition(@, definition)]

\* The definition of the session with the fields of the list of fields.
DefinitionDecoded ==
    [table_definition EXCEPT !.fields = return_data_from_data_view(fields_list_store)]

\* save_decoded_schema: the tables of the schema afterwards.
SaveDecodedSchemaOutcome ==
    PutDefinition(WithTable(tables_definitions, table_name), table_name,
                  DefinitionDecoded)

\* Schema::save: the file of the schema of the game of the PackFile, which
\* is taken to be writable; no file for a PackFile of no schema.
SchemaSave(tables, file, pack_file_id) ==
    IF SchemaLoad(pack_file_id) # "None"
    THEN [err |-> ErrNone, file |-> tables]
    ELSE [err |-> "IOError", file |-> file]

\* The state a handler of the schema of the decoder leaves.
ApplySchema(op, err, tables, file, definition, list_store) ==
    /\ tables_definitions' = tables
    /\ schema_file' = file
    /\ table_definition' = definition
    /\ fields_list_store' = list_store
    /\ all_table_versions_list_store' =
           IF err = ErrNone \/ op = "save_decoded_schema"
           THEN update_versions_list(tables, table_name)
           ELSE all_table_versions_list_store
    /\ last' = NoArgs(op, err)
    /\ UNCHANGED <<lib_vars, window_vars>>
    /\ UNCHANGED <<pack_file_decoded, pack_file_decoded_extra, mode, game_selected,
                   schema, disk, packed_file_type, packed_file_index,
                   packed_file_data_decoded, packed_file_list_store,
                   packed_file_data_encoded, table_name, initial_index, index_data>>

\* save_decoded_schema handler.
SaveDecodedSchema ==
    /\ DecoderOpen
    /\ schema # "None"
    /\ ApplySchema("save_decoded_schema",
                   SchemaSave(SaveDecodedSchemaOutcome, schema_file,
                              pack_file_decoded.pack_file_id).err,
                   SaveDecodedSchemaOutcome,
                   SchemaSave(SaveDecodedSchemaOutcome, schema_file,
                              pack_file_decoded.pack_file_id).file,
                   DefinitionDecoded, fields_list_store)

\* all_table_versions_remove_definition handler, with a version of the list
\* selected.
RemoveDefinition ==
    /\ DecoderOpen
    /\ schema # "None"
    /\ \E k \in DOMAIN all_table_versions_list_store :
        ApplySchema("remove_definition",
                    remove_table_version(table_name, all_table_versions_list_store[k],
                                         tables_definitions).err,
                    remove_table_version(table_name, all_table_versions_list_store[k],
                                         tables_definitions).tables,
                    schema_file, table_definition, fields_list_store)

\* The definition that all_table_versions_load_definition hands to
\* update_decoder_view: no fields for None.
DefinitionToLoad(found, version) ==
    IF found = <<>> THEN TableDefinition(version, <<>>) ELSE found[1]

\* all_table_versions_load_definition handler, with a version of the list
\* selected: the fields are replaced, the index returned is dropped and
\* the definition of the session stays.
LoadDefinition ==
    /\ DecoderOpen
    /\ schema # "None"
    /\ \E k \in DOMAIN all_table_versions_list_store :
        ApplySchema("load_definition", ErrNone, tables_definitions, schema_file,
                    table_definition,
                    LoadDefinitionRows(
                        packed_file_data_encoded,
                        DefinitionToLoad(
                            get_schema(table_name, all_table_versions_list_store[k],
                                       tables_definitions),
                            all_table_versions_list_store[k]),
                        initial_index).list_store)

\* menu_bar_open_packfile handler, the PackFile with the tables chosen.
OpenTablesPackFile ==
    \E answer \in BOOLEAN :
        /\ are_you_sure(pack_file_decoded.is_modified, FALSE, answer)
        /\ Apply("open", OpenPackfileOutcome(TablesPath, FALSE, ""))

\* The schema under the decoder and the loads of the schema file.
NextSchema ==
    \/ OpenTablesPackFile
    \/ SelectPackedFile
    \/ DecodeMode
    \/ DeleteAllFields
    \/ SaveDecodedSchema
    \/ RemoveDefinition
    \/ LoadDefinition

SpecSchema == InitTables /\ [][NextSchema]_vars

(***************************************************************************)
(* The ESF view (rpfm_ui, packedfile_views/esf/esftree): the tree of       *)
(* nodes of spec sections 3 and 4.5, the items of the tree view built from *)
(* it and the ESF read back from the items.                                *)
(***************************************************************************)
\* NodeType: a Record with its own fields, here its name, and its groups
\* of children, or a leaf with its value.
RecordNode(name, children) == [record |-> TRUE, name |-> name, children |-> children]
Leaf(value) == [record |-> FALSE, name |-> value, children |-> <<>>]

\* NodeType::clone_without_children.
clone_without_children(node) == [node EXCEPT !.children = <<>>]

\* The nodes of a group without their children.
Childless(nodes) == [i \in DOMAIN nodes |-> clone_without_children(nodes[i])]

Esf(signature, root_node) == [signature |-> signature, root_node |-> root_node]

\* ESF::clone_without_root_node.
clone_without_root_node(esf) == [esf EXCEPT !.root_node = NoNode]

\* The text that serde_json writes: the type written and its content.  No
\* data set for a role of an item reads as the empty text.
Json(kind, value) == [kind |-> kind, value |-> value]
NoData == Json("", <<>>)

\* serde_json::from_str::<Vec<Vec<NodeType>>>: the text of a list of lists
\* parses; so does the text of an empty list, which is "[]" whatever the
\* type of its elements; the text of a list of nodes does not.
ParsesAsGroups(json) ==
    \/ json.kind = "groups"
    \/ json.kind = "nodes" /\ json.value = <<>>

\* The stashed children of an item: none for no text and for a text that
\* does not parse.
ChildrenStash(json) == IF ParsesAsGroups(json) THEN json.value ELSE <<>>

\* QStandardItem: its text, its data under the roles ESF_DATA,
\* CHILDLESS_NODE and CHILD_NODES, and its rows.
Item(text, data, childless_node, child_nodes, rows) ==
    [text |-> text, ESF_DATA |-> data, CHILDLESS_NODE |-> childless_node,
     CHILD_NODES |-> child_nodes, rows |-> rows]

RECURSIVE load_node_to_view(_)
RECURSIVE LoadNodes(_)
RECURSIVE GroupItem(_, _)

\* The rows that load_node_to_view appends to the parent for each of the
\* nodes: one for a Record, none for a leaf.
LoadNodes(nodes) ==
    IF nodes = <<>> THEN <<>>
    ELSE load_node_to_view(Head(nodes)) \o LoadNodes(Tail(nodes))

\* The item of a group of child: it carries the childless child again, the
\* childless nodes of the group as one list, and the rows of its Records.
GroupItem(child, grandchildren) ==
    Item(child.name, NoData, Json("node", clone_without_children(child)),
         Json("nodes", Childless(grandchildren)), LoadNodes(grandchildren))

\* load_node_to_view: the item of a Record has one row for each group.
load_node_to_view(child) ==
    IF ~child.record THEN <<>>
    ELSE << Item(child.name, NoData, Json("node", clone_without_children(child)),
                 Json("groups", [g \in DOMAIN child.children |->
                                    Childless(child.children[g])]),
                 [g \in DOMAIN child.children |->
                    GroupItem(child, child.children[g])]) >>

\* update_treeview with Build(esf_data): the rows of the model.  Nothing
\* for a root that is no Record; the root with no group is out of bounds
\* at get_ref_children()[0].
BuildPanics(esf) == esf.root_node.record /\ esf.root_node.children = <<>>

Build(esf) ==
    IF ~esf.root_node.record \/ BuildPanics(esf) THEN <<>>
    ELSE << Item(esf.root_node.name,
                 Json("esf", clone_without_root_node(esf)),
                 Json("node", clone_without_children(esf.root_node)),
                 Json("nodes", Childless(esf.root_node.children[1])),
                 LoadNodes(Flatten(esf.root_node.children))) >>

\* What the read of the data of a null item gives: the program stops, or
\* it reads something that is no node of the ESF.
NullReads == {"crash", "invalid"}
Crashed == [record |-> FALSE, name |-> "Crash", children |-> <<>>]
NullNode(null_read) == IF null_read = "crash" THEN Crashed ELSE NoNode

\* The number of Records of nodes.
RecordsIn(nodes) == Cardinality({i \in DOMAIN nodes : nodes[i].record})

\* The number of Records of the first g groups.
RECURSIVE RecordsInGroups(_, _)
RecordsInGroups(groups, g) ==
    IF g = 0 THEN 0 ELSE RecordsIn(groups[g]) + RecordsInGroups(groups, g - 1)

\* The value of row when the loop over the stash reaches node j of group g.
RowAt(stash, g, j) ==
    RecordsInGroups(stash, g - 1) + RecordsIn(SubSeq(stash[g], 1, j - 1))

RECURSIVE get_node_type_from_tree_node(_, _, _)

\* item.child_1a(row), read as a node: null beyond the rows of the item.
ChildNode(item, row, null_read) ==
    IF row + 1 \in DOMAIN item.rows
    THEN get_node_type_from_tree_node(item.rows[row + 1], FALSE, null_read)
    ELSE NullNode(null_read)

\* The stashed children with each Record replaced by the node read from
\* the row of its number.
Restashed(stash, item, null_read) ==
    [g \in DOMAIN stash |->
        [j \in DOMAIN stash[g] |->
            IF stash[g][j].record
            THEN ChildNode(item, RowAt(stash, g, j), null_read)
            ELSE stash[g][j]]]

\* The children that get_node_type_from_tree_node sets: for the root one
\* group with the nodes of its rows, for another item with rows the stash
\* with its Records replaced, otherwise the stash.
ChildrenRead(item, is_root, null_read) ==
    IF is_root
    THEN << [r \in DOMAIN item.rows |->
                get_node_type_from_tree_node(item.rows[r], FALSE, null_read)] >>
    ELSE IF item.rows # <<>>
    THEN Restashed(ChildrenStash(item.CHILD_NODES), item, null_read)
    ELSE ChildrenStash(item.CHILD_NODES)

get_node_type_from_tree_node(item, is_root, null_read) ==
    [item.CHILDLESS_NODE.value EXCEPT !.children = ChildrenRead(item, is_root, null_read)]

\* The program stopped while the node was read.
RECURSIVE Crashes(_)
Crashes(node) ==
    \/ node = Crashed
    \/ \E g \in DOMAIN node.children : \E j \in DOMAIN node.children[g] :
          Crashes(node.children[g][j])

\* ESFTree::get_esf_from_view.
get_esf_from_view(items, null_read) ==
    [items[1].ESF_DATA.value EXCEPT
        !.root_node = get_node_type_from_tree_node(items[1], TRUE, null_read)]

\* The ESFs opened: a root r with up to MaxGroups groups of up to
\* MaxGroupLen nodes; the nodes are leaves and Records down to the third
\* level.
MaxGroups == 2
MaxGroupLen == 2

SeqsUpTo(S, n) == UNION {[1..k -> S] : k \in 0..n}

ThirdLevel == {Leaf("v"), RecordNode("c", <<>>)}
SecondLevel ==
    {Leaf("v")} \cup
    {RecordNode("b", children) :
        children \in SeqsUpTo(SeqsUpTo(ThirdLevel, MaxGroupLen), MaxGroups - 1)}
EsfInputs ==
    {Esf("esf", RecordNode("r", children)) :
        children \in SeqsUpTo(SeqsUpTo(SecondLevel, MaxGroupLen - 1), MaxGroups)
                      \cup {<<group>> : group \in SeqsUpTo(SecondLevel, MaxGroupLen)}}

\* An ESF PackedFile is decoded and shown.
InitEsf ==
    /\ Started
    /\ esf_data \in EsfInputs
    /\ model = <<>>
    /\ new_esf = NoEsf
    /\ codec_value = NoValue
    /\ codec_data = <<>>
    /\ codec_result = [field_type |-> "None", index |-> 0, err |-> ErrNone,
                       value |-> <<>>, new_index |-> 0]

EsfFrame ==
    UNCHANGED <<pack_file_decoded, pack_file_decoded_extra, mode, game_selected,
                schema, disk, tables_definitions, view_vars, esf_data,
                codec_value, codec_data, codec_result, window_vars>>

\* update_treeview(Build(esf_data)) when the view is created.
BuildTreeView ==
    /\ last.op = "init"
    /\ model' = Build(esf_data)
    /\ new_esf' = new_esf
    /\ last' = NoArgs("build", IF BuildPanics(esf_data) THEN "Panic" ELSE ErrNone)
    /\ EsfFrame

\* The ESF read is returned, unless the program stopped on the way.
EsfRead(read) ==
    /\ new_esf' = IF Crashes(read.root_node) THEN new_esf ELSE read
    /\ last' = NoArgs("get_esf_from_view",
                      IF Crashes(read.root_node) THEN "Crash" ELSE ErrNone)

\* get_esf_from_view on the view built.
GetEsfFromView ==
    /\ last.op = "build"
    /\ last.err = ErrNone
    /\ \E null_read \in NullReads : EsfRead(get_esf_from_view(model, null_read))
    /\ model' = model
    /\ EsfFrame

NextEsf ==
    \/ BuildTreeView
    \/ GetEsfFromView

SpecEsf == InitEsf /\ [][NextEsf]_vars

(***************************************************************************)
(* The codec of the fields on its own (spec section 4.1): a value of a     *)
(* type is encoded and the bytes are decoded, or bytes are decoded as they *)
(* come.                                                                   *)
(***************************************************************************)
\* The longest string of the values encoded.
MaxChars == 2

\* The numbers encoded, of width bytes, as their digits of two bytes: each
\* digit the least, the greatest or one that tells the order of the bytes.
Numbers(width) == [1..(width \div 2) -> {0, 256, 65535}]

\* The characters of the strings encoded, of unit bytes each.
Chars(unit) == {0, 65, 256 ^ unit - 1}

Strings(unit) == UNION {[1..n -> Chars(unit)] : n \in 0..MaxChars}

\* The values of a type.
ValuesOf(field_type) ==
    CASE field_type = "Bool" -> {<<0>>, <<1>>}
      [] field_type \in {"Float", "Integer"} -> Numbers(4)
      [] field_type = "LongInteger" -> Numbers(8)
      [] field_type \in {"StringU8", "OptionalStringU8"} -> Strings(1)
      [] OTHER -> Strings(2)

CodecValue(field_type, value) == [field_type |-> field_type, value |-> value]

CodecValues ==
    UNION {{CodecValue(field_type, value) : value \in ValuesOf(field_type)} :
              field_type \in FieldTypes}

\* The bytes decoded as they come: short, with a byte that is no Boolean,
\* with counts that reach the end and counts that go past it.
CodecBuffers ==
    {<<>>, <<2>>, <<1, 0>>, <<1, 1, 0, 65>>, <<1, 2, 0, 65>>, <<0, 0, 0, 0>>,
     <<2, 0, 65, 0, 66, 0>>, <<255, 255>>, <<1, 0, 0, 0, 0, 0, 0, 0>>}

CodecResult(field_type, index, d) ==
    [field_type |-> field_type, index |-> index, err |-> d.err, value |-> d.value,
     new_index |-> d.index]

\* A value to encode or bytes to decode are at hand.
InitCodec ==
    /\ Started
    /\ esf_data = NoEsf
    /\ model = <<>>
    /\ new_esf = NoEsf
    /\ \/ codec_value \in CodecValues /\ codec_data = <<>>
       \/ codec_value = NoValue /\ codec_data \in CodecBuffers
    /\ codec_result = CodecResult("None", 0, Decoded(ErrNone, <<>>, 0))

CodecFrame ==
    UNCHANGED <<pack_file_decoded, pack_file_decoded_extra, mode, game_selected,
                schema, disk, tables_definitions, view_vars, esf_data, model,
                new_esf, codec_value, window_vars>>

\* encode(value): the bytes of the value at hand.
EncodeValue ==
    /\ last.op = "init"
    /\ codec_value # NoValue
    /\ codec_data' = encode(codec_value.value, codec_value.field_type)
    /\ codec_result' = codec_result
    /\ last' = NoArgs("encode", ErrNone)
    /\ CodecFrame

\* decode(buffer, offset, type) on the bytes at hand.
DecodeValue ==
    /\ last.op = "encode" \/ (last.op = "init" /\ codec_value = NoValue)
    /\ \E field_type \in FieldTypes, index \in 0..(Len(codec_data) + 1) :
        /\ codec_result' = CodecResult(field_type, index,
                                       decode(codec_data, index, field_type))
        /\ last' = NoArgs("decode", decode(codec_data, index, field_type).err)
    /\ codec_data' = codec_data
    /\ CodecFrame

NextCodec ==
    \/ EncodeValue
    \/ DecodeValue

SpecCodec == InitCodec /\ [][NextCodec]_vars

(***************************************************************************)
(* Properties of the container (spec sections 3, 4.6, 7).                  *)
(***************************************************************************)
entries == pack_file_decoded.packed_files

\* The entries of files that a request on tree_path targets: the entry at
\* tree_path when there is one, otherwise those below it.
Targeted(files, tree_path) ==
    LET exact == {e \in Range(files) : e.packed_file_path = tree_path}
    IN  IF exact # {} THEN exact
        ELSE {e \in Range(files) : StartsWith(e.packed_file_path, tree_path)}

\* The entries of files that a request on tree_path does not target, in
\* their order.
Untargeted(files, tree_path) ==
    Retain(files, [i \in DOMAIN files |-> files[i] \notin Targeted(files, tree_path)])

\* after holds the entries of rest in the order of rest.
KeepsInOrder(after, rest) ==
    Retain(after, [j \in DOMAIN after |-> after[j] \in Range(rest)]) = rest

\* C1: after any sequence of add-file, add-folder, copy from the secondary
\* PackFile, template application, delete and rename, no two entries of
\* the open container share a path.
C1_NoTwoEntriesShareAPath == NoDuplicatePaths(entries)

\* A template has been applied to a container that already held one of its
\* paths beside another entry.
C1_TemplateOverExisting ==
    /\ last.op = "apply_template" /\ last.err = ErrNone
    /\ Len(entries) = 3

\* C2: adding a file at a path the container already holds fails with
\* PathCollision and leaves the container as it was, whichever file is
\* picked and whatever is selected.
C2_AddCollisionRejected ==
    \A file \in {FileX, FileZ}, tree_path \in TreeNodes(pack_file_decoded) :
        LET selected_folder == SelectedFolder(tree_path, pack_file_decoded)
            r == AddFileStep(pack_file_decoded, file, selected_folder, mode)
        IN  packedfile_exists(pack_file_decoded,
                              AddFileTreePath(file, selected_folder, mode))
                => r.err = "PathCollision" /\ r.pack_file = pack_file_decoded

\* An add-file request has just been refused for a collision.
C2_AddRefused ==
    /\ last.op = "add_file" /\ last.err = "PathCollision"
    /\ last.file_errors = 1
    /\ entries # <<>>

\* C3: an add-folder request that reports an error leaves the entries of the
\* container as they were: never only some of the folder's files added.
C3_AddFolderAllOrNothing ==
    [][last'.op = "add_folder" /\ last'.err # ErrNone
          => pack_file_decoded'.packed_files = pack_file_decoded.packed_files]_vars

\* C4: a rename onto the path of an existing entry is refused and leaves the
\* container as it was; a rename that succeeds changes the paths of the
\* entries it targets and nothing else: every payload stays with its entry.
C4_RenameCollisionAndPayload ==
    \A tree_path \in TreeNodes(pack_file_decoded) \ {<<>>}, new_name \in NewNames :
        LET r == RenameOutcome(tree_path, new_name)
            hit == Targeted(entries, tree_path)
            renamed(e) == IF e \in hit
                          THEN PackedFile([e.packed_file_path EXCEPT
                                              ![Len(tree_path)] = new_name],
                                          e.packed_file_data)
                          ELSE e
            collides == \E e \in hit, f \in Range(entries) :
                            renamed(e).packed_file_path = f.packed_file_path
        IN  /\ collides => r.err = "PathCollision" /\ r.pack_file = pack_file_decoded
            /\ ~collides =>
                   /\ r.err = ErrNone
                   /\ Len(r.pack_file.packed_files) = Len(entries)
                   /\ Range(r.pack_file.packed_files) = {renamed(e) : e \in Range(entries)}
                   /\ r.pack_file = [pack_file_decoded EXCEPT
                                        !.packed_files = r.pack_file.packed_files,
                                        !.is_modified = TRUE]

\* A rename has just been refused for a collision in a container in which an
\* earlier rename took the payload of db/x to db/z.
C4_RenameRefusedAfterRename ==
    /\ last.op = "rename" /\ last.err = "PathCollision"
    /\ PackedFile(<<"db", "z">>, <<1>>) \in Range(entries)

\* C5: deleting a folder path removes exactly the entries below it, deleting
\* a file path exactly the entry at it; no other entry is removed.
C5_DeleteRemovesExactly ==
    \A tree_path \in TreeNodes(pack_file_decoded) \ {<<>>} :
        LET r == DeleteOutcome(tree_path)
            after == r.pack_file.packed_files
            is_entry == \E e \in Range(entries) : e.packed_file_path = tree_path
            removed == {e \in Range(entries) :
                           IF is_entry THEN e.packed_file_path = tree_path
                           ELSE StartsWith(e.packed_file_path, tree_path)}
        IN  /\ r.err = ErrNone
            /\ removed # {}
            /\ Range(after) = Range(entries) \ removed
            /\ Len(after) = Len(entries) - Cardinality(removed)

\* A delete has just left one entry of a container that was opened with more.
C5_DeleteLeftOne ==
    /\ last.op = "delete" /\ last.err = ErrNone
    /\ Len(entries) = 1
    /\ pack_file_decoded.file_name = "good.pack"

\* C6: a delete or a rename leaves the entries it does not target with their
\* paths, their payloads and their order among themselves.
C6_DeleteRenameFrame ==
    \A tree_path \in TreeNodes(pack_file_decoded) \ {<<>>} :
        LET rest == Untargeted(entries, tree_path)
        IN  /\ KeepsInOrder(DeleteOutcome(tree_path).pack_file.packed_files, rest)
            /\ \A new_name \in NewNames :
                   KeepsInOrder(RenameOutcome(tree_path, new_name).pack_file.packed_files,
                                rest)

\* A rename has just succeeded in a container of several entries, one of
\* them below the folder z that only a rename makes.
C6_RenamedAmongOthers ==
    /\ last.op = "rename" /\ last.err = ErrNone
    /\ Len(entries) >= 2
    /\ \E e \in Range(entries) : e.packed_file_path[1] = "z"
    /\ \E e \in Range(entries) : e.packed_file_path[1] # "z"

(***************************************************************************)
(* Properties of open and save (spec sections 4.6, 6, 7).                  *)
(***************************************************************************)
\* C7: once a container has been saved, opening the file it was saved to
\* gives the container as it is in memory: the same paths in the same
\* order with the same payloads, the same dialect and type.  It holds of
\* every saved container, the unmodified one in particular.
C7_SaveOpenRoundTrip ==
    last.op \in {"save", "save_as"} /\ last.err = ErrNone
        => LET r == open_packfile_lib(disk, pack_file_decoded.file_path)
           IN  r.err = ErrNone /\ r.pack_file = pack_file_decoded

\* The container opened from good.pack has just been saved with the two
\* entries it was opened with.
C7_SavedAsOpened ==
    /\ last.op = "save" /\ last.err = ErrNone
    /\ pack_file_decoded.file_name = "good.pack"
    /\ Len(entries) = 2

\* C8: every container file the program has written (a saved PackFile, a
\* generated dependency pack) has in its header the number of entries of
\* its entry list.
C8_HeaderCountIsEntryCount ==
    \A p \in DiskPaths :
        disk[p].present => disk[p].packed_file_count = Len(disk[p].index)

\* A dependency pack has been generated and a PackFile saved after an add.
C8_DependencyPackAndSavedAdd ==
    /\ disk[DependencyPackPath("warhammer_2")].present
    /\ Len(disk[DependencyPackPath("warhammer_2")].index) = 2
    /\ Len(disk[GoodPack].index) = 3

\* C9: an open that fails (from the dialog, by drag and drop, from the My
\* Mod menu, from the command line) leaves the open PackFile with its
\* modified flag, the mode, the selected game and the schema as they were.
C9_FailedOpenLeavesState ==
    [][last'.op \in {"open", "drop", "open_mod", "argument"} /\ last'.err # ErrNone
          => UNCHANGED <<pack_file_decoded, mode, game_selected, schema>>]_vars

\* A dropped PackFile has just failed to open while a modified MyMod was
\* open.
C9_FailedDropOverMyMod ==
    /\ last.op = "drop" /\ last.err # ErrNone
    /\ mode.kind = "MyMod"
    /\ pack_file_decoded.is_modified

\* C10: a save that fails (Save, Save As, New MyMod, Patch SiegeAI) leaves
\* the open PackFile, its modified flag and the mode as they were before
\* the request.
C10_FailedSaveLeavesState ==
    [][/\ last'.op \in {"save", "save_as", "my_mod_new", "patch_siege_ai"}
       /\ last'.err = "IOError"
          => UNCHANGED <<pack_file_decoded, mode>>]_vars

\* C11: opening a file whose dialect tag is neither PFH4 nor PFH5 fails with
\* CorruptContainer, and no request succeeds by taking an unrecognized tag
\* or game for one of the two dialects: a New MyMod that succeeded was for
\* one of the two games that have a dialect.
C11_UnrecognizedNeverSupported ==
    /\ \A path \in ChooserPaths :
           disk[path].present /\ disk[path].pack_file_id \notin {"PFH4", "PFH5"}
               => OpenPackfileOutcome(path, FALSE, "").err = "CorruptContainer"
    /\ last.op = "open" /\ last.err = ErrNone
           => pack_file_decoded.pack_file_id \in {"PFH4", "PFH5"}
    /\ last.op = "my_mod_new" /\ last.err = ErrNone
           => mode.game_folder_name \in Games

(***************************************************************************)
(* Properties of the decoder session (spec sections 3, 4.1, 4.4).          *)
(***************************************************************************)
\* The count of characters that the two bytes at index give.
CountAt(data, index) ==
    IF HasBytes(data, index, 2) THEN data[index + 1] + 256 * data[index + 2] ELSE 0

\* The bytes that a value of field_type takes in data at index.
ByteLength(data, index, field_type) ==
    LET string_u8 == field_type \in {"StringU8", "OptionalStringU8"}
        present == HasBytes(data, index, 1) /\ data[index + 1] # 0
    IN  CASE field_type = "Bool" -> 1
          [] field_type \in {"Float", "Integer"} -> 4
          [] field_type = "LongInteger" -> 8
          [] field_type \in {"StringU8", "StringU16"} ->
                2 + CountAt(data, index) * (IF string_u8 THEN 1 ELSE 2)
          [] OTHER ->
                IF present
                THEN 3 + CountAt(data, index + 1) * (IF string_u8 THEN 1 ELSE 2)
                ELSE 1

\* C12: proposing a field type at the cursor of a decoder session either
\* commits (the field is added at the end of the field list and the cursor
\* advances by the byte length of the value decoded) or rejects (field list
\* and cursor stay as they were), and a field whose value would run past the
\* end of the buffer is never committed.
C12_ProposalCommitsOrRejects ==
    DecoderOpen =>
        \A field_type \in FieldTypes :
            LET o == UseFieldOutcome(field_type)
                length == ByteLength(packed_file_data_encoded, index_data, field_type)
                committed ==
                    /\ Len(o.list_store) = Len(fields_list_store) + 1
                    /\ SubSeq(o.list_store, 1, Len(fields_list_store)) = fields_list_store
                    /\ o.list_store[Len(o.list_store)].field_type = field_type
                    /\ o.index = index_data + length
                rejected ==
                    /\ o.list_store = fields_list_store
                    /\ o.index = index_data
            IN  /\ committed \/ rejected
                /\ index_data + length > Len(packed_file_data_encoded) => rejected

\* A proposal was rejected for running past the end, after a commit.
C12_RejectedAfterCommitted ==
    /\ last.op = "use_field"
    /\ last.err = "UnexpectedEndOfData"
    /\ fields_list_store # <<>>
    /\ index_data > initial_index

\* The index at which field k of types is decoded when the fields before it
\* are decoded one after another from start on.
RECURSIVE OffsetOf(_, _, _, _)
OffsetOf(data, types, k, start) ==
    IF k = 1 THEN start
    ELSE LET before == OffsetOf(data, types, k - 1, start)
         IN  before + ByteLength(data, before, types[k - 1])

\* Every field of types decodes at its place.
AllDecode(data, types, start) ==
    \A k \in DOMAIN types :
        decode(data, OffsetOf(data, types, k, start), types[k]).err = ErrNone

\* The session that decoding the fields of types from the header end gives.
Replayed(types) ==
    Session([k \in DOMAIN types |->
                Row(types[k],
                    Text(decode(packed_file_data_encoded,
                                OffsetOf(packed_file_data_encoded, types, k, initial_index),
                                types[k]).value))],
            OffsetOf(packed_file_data_encoded, types, Len(types) + 1, initial_index))

\* The types of the fields of the session, in their order.
field_types == return_data_from_data_view(fields_list_store)

\* A move or a deletion that gives the fields of types is as the claim says.
ReplaysAs(o, types) ==
    AllDecode(packed_file_data_encoded, types, initial_index) => o = Replayed(types)

\* C13: after a committed field is moved up, moved down or deleted, the
\* cursor is the offset reached by decoding the remaining fields in their new
\* order from the header end, and the preview of each field is the value
\* decoded at its new place.
C13_MoveAndDeleteReplay ==
    DecoderOpen =>
        \A row \in DOMAIN fields_list_store :
            /\ ReplaysAs(MoveRowUpOutcome(row),
                         IF row > 1 THEN Swap(field_types, row, row - 1) ELSE field_types)
            /\ ReplaysAs(MoveRowDownOutcome(row),
                         IF row < Len(field_types) THEN Swap(field_types, row, row + 1)
                         ELSE field_types)
            /\ ReplaysAs(DeleteRowOutcome(row), RemoveRow(field_types, row))

\* A string field was moved before a field it followed and every field still
\* decodes: the cursor and the previews are those of the new order.
C13_MovedStringDecodes ==
    /\ last.op \in {"move_row_up", "move_row_down"}
    /\ Len(fields_list_store) >= 2
    /\ fields_list_store[1].field_type = "StringU8"
    /\ \A k \in DOMAIN fields_list_store : ~fields_list_store[k].first_row_decoded.error
    /\ index_data = Len(packed_file_data_encoded)

\* C14: a replay that follows a replay with no edit in between leaves the
\* cursor, the field list and the previews as the first replay left them.
C14_ReplayTwiceIsReplayOnce ==
    [][(/\ last.op \in {"move_row_up", "move_row_down", "delete_row"}
        /\ last'.op = "delete_row"
        /\ Len(fields_list_store') = Len(fields_list_store))
          => UNCHANGED <<fields_list_store, index_data>>]_vars

\* A replay ran over a session of two fields or more with a cursor past the
\* header.
C14_ReplayedSession ==
    /\ last.op = "delete_row"
    /\ Len(fields_list_store) >= 2
    /\ index_data > initial_index

\* C15: a move or a deletion of a field whose replay fails to decode some
\* field leaves the order of the fields, the previews and the cursor as they
\* were before it.
C15_FailedReplayRestores ==
    DecoderOpen =>
        \A row \in DOMAIN fields_list_store :
            \A o \in {MoveRowUpOutcome(row), MoveRowDownOutcome(row), DeleteRowOutcome(row)} :
                (\E k \in DOMAIN o.list_store : o.list_store[k].first_row_decoded.error)
                    => o = Session(fields_list_store, index_data)

(***************************************************************************)
(* Properties of the Loc and DB tables (spec sections 3, 4.3, 7).          *)
(***************************************************************************)
\* C16: after any sequence of key edits, added rows, deleted rows and CSV
\* imports on a Loc, the key of every row is not empty, has no whitespace
\* character and is the key of no other row; an edit that would break this is
\* rejected and leaves the table as it was.
C16_LocKeysValid ==
    LocOpen =>
        /\ ValidKeys(packed_file_data_decoded.rows)
        /\ \A row \in DOMAIN packed_file_list_store, new_text \in NewTexts :
               ~ValidKeys([packed_file_list_store EXCEPT ![row][1] = new_text])
                   => LocKeyEditedOutcome(row, new_text).view = SameView

\* C17: a CSV import that fails at any stage leaves the decoded table, the
\* payload of the entry in the PackFile and the modified flag as they were
\* before the import.
C17_FailedImportLeavesState ==
    [][(last'.op \in {"loc_import_csv", "db_import_csv"} /\ last'.err # ErrNone)
          => UNCHANGED <<packed_file_data_decoded, pack_file_decoded>>]_vars
(***************************************************************************)
(* Properties of the schema (spec sections 3, 4.2, 6).                     *)
(***************************************************************************)
\* The names of the tables of the schema are all different.
TablesNamedOnce(tables) ==
    \A i, j \in DOMAIN tables : tables[i].name = tables[j].name => i = j

\* C18: saving the definition of the decoder inserts or replaces the
\* definition of one (table name, version) pair, the version being the one
\* of the header of the PackedFile: afterwards the schema holds one
\* definition for that pair, the one saved, and the definitions of every
\* other pair are as before; the schema never holds two definitions of a
\* pair.
C18_SaveSetsOnePair ==
    /\ TablesNamedOnce(tables_definitions)
    /\ \A name \in TableNames, version \in Versions :
          Len(DefinitionsOf(tables_definitions, name, version)) <= 1
    /\ (DecoderOpen /\ schema # "None") =>
          /\ table_definition.version = DBHeaderRead(packed_file_data_encoded).version
          /\ TablesNamedOnce(SaveDecodedSchemaOutcome)
          /\ DefinitionsOf(SaveDecodedSchemaOutcome, table_name, table_definition.version)
                = <<DefinitionDecoded>>
          /\ \A name \in TableNames, version \in Versions :
                <<name, version>> # <<table_name, table_definition.version>>
                    => DefinitionsOf(SaveDecodedSchemaOutcome, name, version)
                         = DefinitionsOf(tables_definitions, name, version)

\* The definition of version 2 of table x was replaced by the fields loaded
\* from version 1, which is as it was.
C18_DefinitionReplaced ==
    /\ last.op = "save_decoded_schema"
    /\ table_name = "x"
    /\ DefinitionsOf(tables_definitions, "x", 2)
          = <<TableDefinition(2, <<"Bool", "StringU8">>)>>
    /\ DefinitionsOf(tables_definitions, "x", 1)
          = <<TableDefinition(1, <<"Bool", "StringU8">>)>>

\* C19: the schema is looked up by the exact version: get_schema never
\* gives a definition of another version, even when the table has other
\* versions; the decoder opened on a PackedFile whose (table, version) has
\* no definition starts with no fields and the index at the end of the
\* header.
C19_LookupByExactVersion ==
    /\ \A name \in TableNames, version \in Versions :
          /\ get_schema(name, version, tables_definitions) # <<>>
                => get_schema(name, version, tables_definitions)[1].version = version
          /\ DefinitionsOf(tables_definitions, name, version) = <<>>
                => get_schema(name, version, tables_definitions) = <<>>
    /\ ( /\ last.op = "decode_mode"
         /\ last.err = ErrNone
         /\ DefinitionsOf(tables_definitions, table_name,
                          DBHeaderRead(packed_file_data_encoded).version) = <<>> )
          => /\ fields_list_store = <<>>
             /\ initial_index = DBHeaderRead(packed_file_data_encoded).index
             /\ index_data = initial_index
             /\ table_definition
                   = TableDefinition(DBHeaderRead(packed_file_data_encoded).version, <<>>)

\* The decoder was opened on a PackedFile of table x whose version has no
\* definition while another version of x has one.
C19_SessionWithoutDefinition ==
    /\ last.op = "decode_mode"
    /\ last.err = ErrNone
    /\ table_name = "x"
    /\ DefinitionsOf(tables_definitions, "x",
                     DBHeaderRead(packed_file_data_encoded).version) = <<>>
    /\ VersionsListed(tables_definitions, "x") # {}
    /\ fields_list_store = <<>>

\* C20: a (table, version) pair with no definition in the schema, one
\* removed among them, gets a definition again only when a definition is
\* saved for it.
C20_AbsentUntilSavedAgain ==
    [][\A name \in TableNames, version \in Versions :
          ( /\ DefinitionsOf(tables_definitions, name, version) = <<>>
            /\ DefinitionsOf(tables_definitions', name, version) # <<>> )
              => last'.op = "save_decoded_schema"]_vars
(***************************************************************************)
(* Properties of the ESF view and of the codec (spec sections 4.1, 4.5, 8).*)
(***************************************************************************)
\* C21: the ESF read back from the view that was built from an ESF, with
\* no edit in between, is that ESF: every Record with its own fields, its
\* groups and the children of each group in their order, at every depth.
C21_ViewRoundTrip ==
    last.op = "get_esf_from_view" => (last.err = ErrNone /\ new_esf = esf_data)
\* C22: for every type of field and every value of it, the bytes that
\* encode gives for the value decode at offset 0 to that value, and the new
\* offset is the number of those bytes.
C22_DecodeOfEncode ==
    ( /\ last.op = "decode"
      /\ codec_value # NoValue
      /\ codec_result.field_type = codec_value.field_type
      /\ codec_result.index = 0 )
        => /\ codec_result.err = ErrNone
           /\ codec_result.value = codec_value.value
           /\ codec_result.new_index = Len(codec_data)

\* The string of two characters of two bytes each came back from its bytes
\* behind the presence flag.
C22_OptionalStringBack ==
    /\ last.op = "decode"
    /\ codec_value = CodecValue("OptionalStringU16", <<65535, 65>>)
    /\ codec_result.field_type = "OptionalStringU16"
    /\ codec_result.index = 0
    /\ codec_result.value = <<65535, 65>>
    /\ codec_result.new_index = 7
\* The outcomes of decoding data as field_type at index that stay within
\* the data: a value and a new index up to the length of the data, or one
\* of the errors of failures.
StaysWithin(data, index, field_type, failures) ==
    \/ /\ decode(data, index, field_type).err = ErrNone
       /\ decode(data, index, field_type).index <= Len(data)
       /\ decode(data, index, field_type).index >= index
    \/ decode(data, index, field_type).err \in failures

\* Every type decoded at every index of the data of the PackedFile shown,
\* and one index past it, stays within the data, and so does the index of
\* the decoder.
DecodesWithin(failures) ==
    /\ \A field_type \in FieldTypes, index \in 0..(Len(packed_file_data_encoded) + 1) :
          StaysWithin(packed_file_data_encoded, index, field_type, failures)
    /\ index_data <= Len(packed_file_data_encoded)
    /\ initial_index <= Len(packed_file_data_encoded)

\* C23 as stated: decoding any type at any index of any data gives a value
\* and a new index that is at most the length of the data, or fails with
\* UnexpectedEndOfData; the index of a decoder session never exceeds the
\* length of the data.
C23_DecodeValueOrEndOfData == DecodesWithin({"UnexpectedEndOfData"})

\* C23 amended: decoding any type at any index of any data gives a value
\* and a new index that is at most the length of the data, or fails with
\* UnexpectedEndOfData, or fails with MalformedField, which only a Bool
\* does, on a byte that is neither 0 nor 1; the index of a decoder session,
\* replays over fields that no longer fit the data included, never exceeds
\* the length of the data.
C23_DecodeStaysWithin ==
    /\ DecodesWithin({"UnexpectedEndOfData", "MalformedField"})
    /\ \A field_type \in FieldTypes, index \in 0..(Len(packed_file_data_encoded) + 1) :
          decode(packed_file_data_encoded, index, field_type).err = "MalformedField"
              => /\ field_type = "Bool"
                 /\ packed_file_data_encoded[index + 1] \notin {0, 1}

\* A field was moved or deleted and the replay left a field that does not
\* decode, with the index within the data, on data that has a byte that is
\* no Bool.
C23_ReplayOverUnfitFields ==
    /\ last.op \in {"move_row_up", "move_row_down", "delete_row"}
    /\ \E k \in DOMAIN fields_list_store : fields_list_store[k].first_row_decoded.error
    /\ index_data <= Len(packed_file_data_encoded)
    /\ \E index \in 0..Len(packed_file_data_encoded) :
          decode(packed_file_data_encoded, index, "Bool").err = "MalformedField"
\* The payloads of the entries of the secondary PackFile at or below
\* tree_path_source, in the order of its index.
SourcePayloads(tree_path_source) ==
    LET files == pack_file_decoded_extra.packed_files
        hit == DeleteTargets(pack_file_decoded_extra, tree_path_source)
    IN  Retain([i \in DOMAIN files |-> files[i].packed_file_data],
               [i \in DOMAIN files |-> i \in hit])

\* The payloads of the entries a step appended to the open PackFile.
AppendedPayloads ==
    LET old == pack_file_decoded.packed_files
        new == pack_file_decoded'.packed_files
    IN  [k \in 1..(Len(new) - Len(old)) |-> new[Len(old) + k].packed_file_data]

\* C24: the secondary PackFile changes only when 'add from PackFile' opens
\* another one: no copy and no request on the open PackFile changes it; a
\* copy that succeeds keeps the entries of the open PackFile and appends
\* entries whose payloads are those of the entries selected in the secondary
\* PackFile.
C24_SecondaryReadOnly ==
    [][/\ pack_file_decoded_extra' # pack_file_decoded_extra
             => (last'.op = "add_from_packfile" /\ last'.err = ErrNone)
       /\ (last'.op = "copy" /\ last'.err = ErrNone)
             => /\ Len(pack_file_decoded'.packed_files)
                      > Len(pack_file_decoded.packed_files)
                /\ SubSeq(pack_file_decoded'.packed_files, 1,
                          Len(pack_file_decoded.packed_files))
                      = pack_file_decoded.packed_files
                /\ \E source \in TreeNodes(pack_file_decoded_extra) :
                      AppendedPayloads = SourcePayloads(source)]_vars

\* A folder of two entries copied out of the secondary PackFile.
C24_CopiedFromSecondary ==
    /\ last.op = "copy"
    /\ last.err = ErrNone
    /\ Len(pack_file_decoded_extra.packed_files) >= 2
    /\ \E i, j \in DOMAIN pack_file_decoded.packed_files :
          /\ i < j
          /\ \E a, b \in DOMAIN pack_file_decoded_extra.packed_files :
                /\ a < b
                /\ pack_file_decoded.packed_files[i].packed_file_data
                      = pack_file_decoded_extra.packed_files[a].packed_file_data
                /\ pack_file_decoded.packed_files[j].packed_file_data
                      = pack_file_decoded_extra.packed_files[b].packed_file_data
                /\ pack_file_decoded.packed_files[i].packed_file_data
                      # pack_file_decoded.packed_files[j].packed_file_data
\* The dependency pack read whatever the game: the arm of every game but
\* warhammer_2.
DependencyDatabasePathOfWarhammer(game) == <<"dependency_packs", "wh.pack">>

\* The file the DB view opens for the foreign keys of the selected game.
DependencyDatabasePath(game) ==
    IF game = "warhammer_2" THEN <<"dependency_packs", "wh2.pack">>
    ELSE <<"dependency_packs", "wh.pack">>

\* dependency_database of the DB view: the entries of the dependency pack of
\* the selected game, None when it does not open.
dependency_database(files, game) ==
    LET r == open_packfile_lib(files, DependencyDatabasePath(game))
    IN  [some |-> r.err = ErrNone,
         packed_files |-> IF r.err = ErrNone THEN r.pack_file.packed_files ELSE <<>>]

\* The entries of a list whose path begins with the segment db, in the order
\* of the list.
DbEntries(files) ==
    Retain(files, [i \in DOMAIN files |-> Head(files[i].packed_file_path) = "db"])

\* C25: after a generation that succeeds, the dependency pack the DB view
\* reads for the selected game holds exactly the entries of that game's
\* data.pack below db, in their order and with their payloads; for every
\* game the file read is the file the generation writes.
C25_DependencyPackIsDbOfDataPack ==
    [][/\ \A game \in ComboGames :
              DependencyDatabasePath(game) = DependencyPackPath(game)
       /\ (last'.op = "generate_dependency_pack" /\ last'.err = ErrNone)
             => LET data == open_packfile_lib(
                                disk, <<game_data_path(game_selected), "data.pack">>)
                    read == dependency_database(disk', game_selected')
                IN  /\ read.some
                    /\ read.packed_files = DbEntries(data.pack_file.packed_files)]_vars

\* The dependency pack of warhammer_2 has just been generated: the DB view
\* would read the two entries below db of the three of data.pack.
C25_GeneratedAndRead ==
    /\ last.op = "generate_dependency_pack"
    /\ last.err = ErrNone
    /\ game_selected = "warhammer_2"
    /\ Len(open_packfile_lib(disk, DataPack).pack_file.packed_files) = 3
    /\ Len(dependency_database(disk, game_selected).packed_files) = 2
(***************************************************************************)
(* Properties of the modified flag and the mode (spec section 3).          *)
(***************************************************************************)
\* What a handler leaves when the user answers no to its question.
Declined == Outcome(ErrNone, pack_file_decoded, mode, game_selected, schema, disk)

\* menu_bar_new_packfile handler from its question on.
NewPackFileHandler(answer) ==
    IF are_you_sure(pack_file_decoded.is_modified, FALSE, answer)
    THEN NewPackFileOutcome ELSE Declined

\* menu_bar_open_packfile and drag_data_received handlers from their
\* question on.
OpenPackFileHandler(answer, path) ==
    IF are_you_sure(pack_file_decoded.is_modified, FALSE, answer)
    THEN OpenPackfileOutcome(path, FALSE, "") ELSE Declined

\* open_mod handler of build_my_mod_menu from its question on.
OpenMyModHandler(answer, game_folder_name) ==
    IF are_you_sure(pack_file_decoded.is_modified, FALSE, answer)
    THEN OpenPackfileOutcome(MyModPath(game_folder_name), TRUE, game_folder_name)
    ELSE Declined

\* menu_bar_my_mod_delete handler from its question on.
MyModDeleteHandler(answer, io_ok) ==
    IF are_you_sure(TRUE, TRUE, answer) THEN MyModDeleteOutcome(io_ok, TRUE)
    ELSE Declined

\* menu_bar_quit and the window's delete_event handlers: whether the program
\* quits.
QuitHandler(answer) == are_you_sure(pack_file_decoded.is_modified, FALSE, answer)

\* C26: while the user answers no to every question, no request replaces or
\* discards a modified PackFile: New PackFile, Open, a drop, a MyMod of the
\* menu, New MyMod, Delete MyMod, Quit and the closing of the window.
C26_ModifiedKeptUnlessConfirmed ==
    pack_file_decoded.is_modified
        => /\ NewPackFileHandler(FALSE).pack_file = pack_file_decoded
           /\ \A path \in ChooserPaths :
                  OpenPackFileHandler(FALSE, path).pack_file = pack_file_decoded
           /\ \A game_folder_name \in Games :
                  OpenMyModHandler(FALSE, game_folder_name).pack_file = pack_file_decoded
           /\ \A io_ok \in BOOLEAN :
                  MyModDeleteHandler(FALSE, io_ok).pack_file = pack_file_decoded
           /\ ~QuitHandler(FALSE)
           /\ \A selected_game \in ComboGames, io_ok \in BOOLEAN :
                  MyModNewOutcome(ModName, selected_game, io_ok).pack_file
                      = pack_file_decoded
\* C27: while the mode is MyMod, the open PackFile is that mod: its file
\* name is the mod_name of the mode.
C27_MyModIsOpenPackFile ==
    mode.kind = "MyMod" => pack_file_decoded.file_name = mode.mod_name
\* C29: a request that leaves the entries and the type of the open PackFile as
\* they were leaves its modified flag as it was: an add of files or of a
\* folder in which every file is rejected, a delete, a copy or a rename that
\* fails, a change to the type the PackFile has.
C29_UnchangedKeepsFlag ==
    [][/\ (/\ last'.op \in {"add_file", "add_folder", "delete"}
           /\ pack_file_decoded'.packed_files = pack_file_decoded.packed_files)
             => pack_file_decoded'.is_modified = pack_file_decoded.is_modified
       /\ ChangePackFileTypeOutcome(pack_file_decoded.pack_file_type).is_modified
             = pack_file_decoded.is_modified
       /\ \A source \in TreeNodes(pack_file_decoded_extra),
             destination \in TreeNodes(pack_file_decoded) :
             CopyOutcome(source, destination).err # ErrNone
                 => CopyOutcome(source, destination).pack_file.is_modified
                        = pack_file_decoded.is_modified
       /\ \A tree_path \in TreeNodes(pack_file_decoded), new_name \in NewNames :
             RenameOutcome(tree_path, new_name).err # ErrNone
                 => RenameOutcome(tree_path, new_name).pack_file.is_modified
                        = pack_file_decoded.is_modified]_vars
(***************************************************************************)
(* The PackedFile view and the tree view together: the view keeps the      *)
(* index of the entry it was opened for, and no handler of the menus or of *)
(* the tree view clears the display.                                       *)
(***************************************************************************)
\* A Loc or DB view is displayed, with its handlers connected.
ViewShown == packed_file_type \in {"LOC", "DB"} /\ packed_file_data_decoded # NoTable

\* The selection of the tree view while it still is the entry of the view.
SelectionOfView ==
    /\ ViewShown
    /\ last.op \in {"select", "loc_key_edited"}
    /\ packed_file_index \in DOMAIN pack_file_decoded.packed_files

\* folder_tree_view_delete_packedfile handler on the entry selected, the one
\* the view is displayed for.
DeleteSelected ==
    /\ SelectionOfView
    /\ LET r == DeleteOutcome(
                    pack_file_decoded.packed_files[packed_file_index].packed_file_path)
       IN  /\ pack_file_decoded' = r.pack_file
           /\ last' = NoArgs("delete", r.err)
    /\ UNCHANGED <<lib_vars, window_vars>>
    /\ UNCHANGED <<pack_file_decoded_extra, mode, game_selected, schema, disk>>
    /\ UNCHANGED <<tables_definitions, view_vars>>

\* The views under the requests that change the entries below them.
NextViews ==
    \/ SelectPackedFile
    \/ ExitAddFromPackFile
    \/ LocKeyEdited
    \/ DeleteSelected
    \/ AddFromPackFile
    \/ NewPackFile
    \/ OpenTablesPackFile

SpecViews == InitTables /\ [][NextViews]_vars

update_packed_file_data(packed_file_data, pf, i) ==
    [pf EXCEPT !.packed_files[i].packed_file_data = packed_file_data]

\* source_view_buffer changed handler of the text view opened for the entry
\* at i.
TextChangedOutcome(i, packed_file_data) ==
    Result(ErrNone,
           set_modified(TRUE, update_packed_file_data(packed_file_data,
                                                      pack_file_decoded, i)))

\* The patch button and the texture path handlers of the RigidModel view
\* opened for the entry at i; edit_ok is what the patch or the reading of the
\* view answers, update_ok what update_packed_file_data_rigid answers.
RigidModelChangedOutcome(i, packed_file_data, edit_ok, update_ok) ==
    IF ~edit_ok \/ ~update_ok THEN Result("MalformedField", pack_file_decoded)
    ELSE Result(ErrNone,
                set_modified(TRUE, update_packed_file_data(packed_file_data,
                                                           pack_file_decoded, i)))

\* The payloads the text and RigidModel views write.
EditedPayloads == {<<>>, <<7>>}

\* The flag a handler of the tree view leaves when it succeeds.
Marks(r) == r.err = ErrNone => r.pack_file.is_modified

\* The flag a handler of the File menu leaves when it succeeds.
Clears(o) == o.err = ErrNone => ~o.pack_file.is_modified

\* C28: whatever the state of the program, a New PackFile, an Open, a Save
\* or a Save As that succeeds leaves the PackFile unmodified, and an add, a
\* copy from the secondary PackFile, a delete, a rename, a change to another
\* type and an edit of a table, of a text or of a RigidModel that succeeds
\* leaves it modified.
C28_FlagAfterSuccess ==
    /\ Clears(NewPackFileOutcome)
    /\ \A path \in ChooserPaths \cup {TablesPath} :
           Clears(OpenPackfileOutcome(path, FALSE, ""))
    /\ \A game_folder_name \in Games :
           Clears(OpenPackfileOutcome(MyModPath(game_folder_name), TRUE,
                                      game_folder_name))
    /\ PackFileOpen
          => /\ \A io_ok \in BOOLEAN :
                    /\ Clears(SavePackFileOutcome(io_ok))
                    /\ Clears(SavePackFileAsOutcome(NewPack, io_ok))
             /\ \A tree_path \in TreeNodes(pack_file_decoded) :
                    /\ \A files \in FileChoices :
                           Marks(AddFileLoop(pack_file_decoded, files,
                                     SelectedFolder(tree_path, pack_file_decoded), mode))
                    /\ \A in_assets \in BOOLEAN :
                           Marks(AddFolderOutcome(FolderDb, in_assets,
                                     SelectedFolder(tree_path, pack_file_decoded)))
                    /\ \A source \in TreeNodes(pack_file_decoded_extra) :
                           Marks(CopyOutcome(source, tree_path))
                    /\ Marks(DeleteOutcome(tree_path))
                    /\ \A new_name \in NewNames :
                           Marks(RenameOutcome(tree_path, new_name))
             /\ \A new_type \in 0..4 :
                    new_type # pack_file_decoded.pack_file_type
                        => ChangePackFileTypeOutcome(new_type).is_modified
             /\ \A i \in DOMAIN pack_file_decoded.packed_files,
                   packed_file_data \in EditedPayloads :
                    /\ Marks(TextChangedOutcome(i, packed_file_data))
                    /\ \A edit_ok \in BOOLEAN, update_ok \in BOOLEAN :
                           Marks(RigidModelChangedOutcome(i, packed_file_data,
                                                          edit_ok, update_ok))
    /\ (LocOpen /\ packed_file_index \in DOMAIN pack_file_decoded.packed_files)
          => /\ \A row \in DOMAIN packed_file_list_store, new_text \in NewTexts :
                    (/\ LocKeyEditedOutcome(row, new_text).err = ErrNone
                     /\ new_text # packed_file_list_store[row][1])
                        => LocKeyEditedOutcome(row, new_text).view.pack_file.is_modified
             /\ \A number_rows \in 1..2 :
                    LocAddRowsOutcome(TRUE, number_rows).view.pack_file.is_modified
             /\ \A selected_rows \in SUBSET DOMAIN packed_file_list_store :
                    selected_rows # {}
                        => LocDeleteRowsOutcome(selected_rows).view.pack_file.is_modified
             /\ \A csv \in CsvFiles :
                    LocImportCsvOutcome(csv).err = ErrNone
                        => LocImportCsvOutcome(csv).view.pack_file.is_modified
    /\ (DbOpen /\ packed_file_index \in DOMAIN pack_file_decoded.packed_files)
          => \A csv \in CsvFiles :
                 DbImportCsvOutcome(csv, TRUE, TRUE).err = ErrNone
                     => DbImportCsvOutcome(csv, TRUE, TRUE).view.pack_file.is_modified

\* A key of the Loc has just been edited in a saved, unmodified PackFile
\* while a secondary PackFile is there to copy from: the PackFile is
\* modified.
C28_KeyEditedAndFlagged ==
    /\ last.op = "loc_key_edited"
    /\ last.err = ErrNone
    /\ pack_file_decoded.is_modified
    /\ pack_file_decoded_extra.file_name # ""
    /\ \E source \in TreeNodes(pack_file_decoded_extra) :
           CopyOutcome(source, <<>>).err = ErrNone

(***************************************************************************)
(* The lock of the main tree view (add-from-PackFile mode).                *)
(***************************************************************************)
\* C31: whenever the main tree view is locked, the exit button of the
\* add-from-PackFile mode exists on the display, also after the mode is
\* requested again and the secondary PackFile fails to open.
C31_LockedHasExitButton ==
    is_folder_tree_view_locked => folder_tree_view_extra_exit_button

\* C32: while the main tree view is locked, a change of the selection leaves
\* the display, the view and the entries as they are, and only the exit
\* button releases the lock.
C32_LockedSelectionIdle ==
    [][/\ (is_folder_tree_view_locked /\ last'.op \in {"select", "select_locked"})
            => UNCHANGED <<view_vars, lock_vars, pack_file_decoded>>
       /\ (is_folder_tree_view_locked /\ ~is_folder_tree_view_locked')
            => last'.op = "exit_add_from_packfile"]_vars

\* The selection changed while the tree view was locked.
C32_SelectedWhileLocked ==
    is_folder_tree_view_locked /\ last.op = "select_locked"

(***************************************************************************)
(* The cursor of the decoder session and the field list.                   *)
(***************************************************************************)
\* fields_tree_view_cell_combo edited handler: the type of the row is set in
\* the list store, nothing else.
FieldTypeEditedOutcome(row, new_value) ==
    Session([fields_list_store EXCEPT ![row].field_type = new_value], index_data)

FieldTypeEdited ==
    /\ DecoderOpen
    /\ \E row \in DOMAIN fields_list_store, new_value \in FieldTypes :
        ApplyDecoder("field_type_edited", ErrNone,
                     FieldTypeEditedOutcome(row, new_value))

\* The decoder session under the proposals, moves, deletions and edits of
\* the types of fields.
NextDecoderEdit ==
    \/ SelectPackedFile
    \/ DecodeMode
    \/ UseField
    \/ DeleteAllFields
    \/ MoveRowUp
    \/ MoveRowDown
    \/ DeleteRow
    \/ FieldTypeEdited

SpecDecoderEdit == InitTables /\ [][NextDecoderEdit]_vars

\* C33: in every state of a decoder session the cursor is the offset reached
\* by decoding the fields of the list, in their order and with their current
\* types, from the end of the header.
C33_CursorIsReplayOffset ==
    DecoderOpen =>
        index_data = update_first_row_decoded(packed_file_data_encoded,
                                              fields_list_store, initial_index).index

\* C34: loading the definition of a version of the list replaces the field
\* list with the fields of that definition and sets the cursor to the offset
\* reached by decoding them from the end of the header.
C34_LoadSetsCursor ==
    [][last'.op = "load_definition" =>
          index_data' = update_first_row_decoded(packed_file_data_encoded',
                                                 fields_list_store',
                                                 initial_index').index]_vars

(***************************************************************************)
(* The menu "My Mod": Delete, Install and the state of its actions.        *)
(***************************************************************************)
\* C35: Delete MyMod either deletes nothing and leaves the mode and the open
\* PackFile as they are, or deletes the PackFile of the mod and then the
\* mode is Normal, the actions of My Mod are disabled and the open PackFile
\* is an empty one.
C35_DeleteMyModAtomic ==
    \A io_ok \in BOOLEAN, assets_ok \in BOOLEAN :
        LET o == MyModDeleteOutcome(io_ok, assets_ok)
        IN  \/ /\ o.disk = disk
               /\ o.mode = mode
               /\ o.pack_file = pack_file_decoded
            \/ /\ o.disk # disk
               /\ o.disk = [disk EXCEPT
                               ![<<MyModFolder(mode.game_folder_name), mode.mod_name>>]
                                   = NoFile]
               /\ o.mode = Normal
               /\ o.menu_bar_my_mod = MyModActions(FALSE)
               /\ o.pack_file = PackFileNew

\* C36: in MyMod mode with the game's path configured, the PackFile of the
\* mod in the MyMod folder and the data folder of the game on disk, Install
\* copies the PackFile to the data folder; the missing destination is
\* reported only when the data folder is missing.
C36_InstallCopies ==
    LET my_mod_path == <<MyModFolder(mode.game_folder_name), mode.mod_name>>
        game_path == game_data_path(mode.game_folder_name)
        o == MyModInstallOutcome(TRUE)
    IN  (/\ mode.kind = "MyMod"
         /\ game_path # ""
         /\ is_file(disk, my_mod_path)
         /\ is_dir(disk, <<game_path>>))
        => /\ o.err = ErrNone
           /\ is_file(o.disk, <<game_path, mode.mod_name>>)
           /\ o.disk[<<game_path, mode.mod_name>>] = disk[my_mod_path]

\* C37: the actions Delete, Install and Uninstall of My Mod are enabled
\* exactly when the mode is MyMod.
C37_ActionsIffMyMod ==
    menu_bar_my_mod = MyModActions(mode.kind = "MyMod")

\* A MyMod was created and saved: the mode is MyMod and the actions are on.
C37_MyModCreated ==
    /\ last.op = "my_mod_new"
    /\ last.err = ErrNone
    /\ mode.kind = "MyMod"
    /\ menu_bar_my_mod = MyModActions(TRUE)

(***************************************************************************)
(* The rows added to a Loc table.                                          *)
(***************************************************************************)
\* C38: adding n rows to a Loc table appends exactly n rows, whose keys are
\* New_line_j, pairwise distinct and different from every key the table had,
\* whatever the table holds, an empty table included.
C38_AddedKeysAreNew ==
    LocOpen =>
        \A number_rows \in 0..MaxRows :
            LET old == packed_file_list_store
                new == LocAddRowsOutcome(TRUE, number_rows).view.list_store
            IN  /\ Len(new) = Len(old) + number_rows
                /\ SubSeq(new, 1, Len(old)) = old
                /\ \A k \in (Len(old) + 1)..Len(new) :
                    /\ \E j \in 1..Len(new) : new[k][1] = NewLine(j)
                    /\ \A i \in DOMAIN new : i # k => new[i][1] # new[k][1]

\* Rows were added to a table left without rows: the table holds New_line_1
\* and New_line_2.
C38_RowsAddedToEmptyTable ==
    /\ LocOpen
    /\ last.op = "loc_add_rows"
    /\ last.err = ErrNone
    /\ Len(packed_file_list_store) = 2
    /\ packed_file_list_store[1][1] = NewLine(1)
    /\ packed_file_list_store[2][1] = NewLine(2)

====
